---- MODULE Spec2Model ----
(***************************************************************************)
(* Stream lifecycle reconciliation of shopstream-app: the Stream record    *)
(* (Prisma / Postgres), the Liveness Cache (Redis key stream:{id}:state),  *)
(* the StreamEvent audit log, the Mux webhook endpoint in its two          *)
(* versions (stricter / looser) and the merchant-facing route actions.     *)
(*                                                                         *)
(* A request handler is an async function: it reads its snapshot with      *)
(* findFirst, builds its updates (taking new Date() at that moment) and    *)
(* then awaits its writes.  Writes awaited one after the other are stages  *)
(* of one write each; the writes of a Promise.all are one stage and land   *)
(* in any order.  Each landing is one atomic step of the store it hits.    *)
(***************************************************************************)
EXTENDS Integers, Sequences, FiniteSets, TLC

VARIABLES
  flow,      \* which version of webhooks.mux.tsx is deployed
  streams,   \* Stream table: id -> record
  cache,     \* Redis: stream id -> value of stream:{id}:state
  events,    \* StreamEvent table, in insertion order
  now,       \* wall clock read by new Date()
  muxNext,   \* number of live streams created at Mux so far
  clipRuns,  \* stream id -> number of createAutoClipsForFeaturedProducts calls
  req,       \* request slot -> handler in flight
  resp,      \* the response produced by the last step, if it produced one
  products,  \* StreamProduct table: row id -> row, in insertion order
  streamClips,  \* StreamClip table, in insertion order
  clipAssets    \* number of clip assets created at Mux so far

vars == <<flow, streams, cache, events, now, muxNext, clipRuns, req, resp,
          products, streamClips, clipAssets>>
db == <<streams, cache, events, clipRuns>>
catalog == <<products, streamClips, clipAssets>>

----------------------------------------------------------------------------
(* Bounds *)
MaxTime == 2
MaxEvents == 2
MaxMux == 2

(* Value domains *)
StreamIds == {"s1"}
Shops == {"shopA", "shopB"}
NoId == 0          \* null for ids
NoTime == 0        \* null for timestamps; the clock starts at 1
UnknownSess == MaxMux + 1   \* a Mux live stream id no Stream row refers to
PlaybackOf(m) == 10 + m
Flows == {"strict", "loose"}
Statuses == {"DRAFT", "SCHEDULED", "LIVE", "ENDED"}
CacheVals == {"none", "live", "ended"}

IdleReq == [pc |-> "idle"]
NoResp == [kind |-> "none"]

----------------------------------------------------------------------------
(* prisma: db.stream.create defaults (schema: status DRAFT, nullable rest) *)
NewStream(shop, status) ==
  [shop |-> shop, status |-> status, startedAt |-> NoTime, liveStartedAt |-> NoTime,
   endedAt |-> NoTime, muxStreamId |-> NoId, muxPlaybackId |-> NoId,
   muxAssetId |-> NoId, muxAssetPlaybackId |-> NoId, muxAssetCreatedAt |-> NoTime]

(* prisma: db.stream.update({ where: {id}, data }) sets exactly the fields of data *)
Update(s, data) == [f \in DOMAIN s |-> IF f \in DOMAIN data THEN data[f] ELSE s[f]]

(* db.stream.findFirst({ where: { muxStreamId } }) *)
FindByMux(sess) == {s \in DOMAIN streams : streams[s].muxStreamId = sess}

(* db.stream.findFirst({ where: { id, shop } }) *)
FindByShop(s, shop) == s \in DOMAIN streams /\ streams[s].shop = shop

Busy(r) == req[r].pc # "idle"
EventsPending == Cardinality({r \in DOMAIN req : Busy(r) /\ \E i \in 1..Len(req[r].stages) : "event" \in req[r].stages[i]})
EventRoom == Len(events) + EventsPending < MaxEvents

(* the stores as a request finds them when it starts *)
Pre == [streams |-> streams, cache |-> cache, events |-> events, clipRuns |-> clipRuns]

(* what a finished request leaves observable: its inputs, its response, and the
   stores as they were when it started *)
Response(kind, op, in, code, err, sid, appended, clips, pre) ==
  [kind |-> kind, op |-> op, in |-> in, code |-> code, err |-> err, sid |-> sid,
   appended |-> appended, clips |-> clips, pre |-> pre]

(* a handler between its reads and its response *)
Running(kind, op, in, sid, stages, upd, cacheVal, evType, snap) ==
  [pc |-> "run", kind |-> kind, op |-> op, in |-> in, sid |-> sid, stages |-> stages,
   upd |-> upd, cacheVal |-> cacheVal, evType |-> evType, snap |-> snap,
   appended |-> <<>>, clips |-> 0, pre |-> Pre, done |-> {}, lost |-> {}]

(* a handler that returns without awaiting any write *)
Reply(response) ==
  /\ resp' = response
  /\ UNCHANGED <<flow, streams, cache, events, now, muxNext, clipRuns, req, catalog>>

(* a handler that has read its snapshot and issued its writes *)
Start(r, running) ==
  /\ req' = [req EXCEPT ![r] = running]
  /\ resp' = NoResp
  /\ UNCHANGED <<flow, streams, cache, events, now, muxNext, clipRuns, catalog>>

----------------------------------------------------------------------------
Init ==
  /\ flow \in Flows
  /\ streams = <<>>
  /\ cache = [s \in StreamIds |-> "none"]
  /\ events = <<>>
  /\ now = 1
  /\ muxNext = 0
  /\ clipRuns = [s \in StreamIds |-> 0]
  /\ req = [r \in {"r1", "r2"} |-> IdleReq]
  /\ resp = NoResp
  /\ products = <<>>
  /\ streamClips = <<>>
  /\ clipAssets = 0

(* time passes *)
Tick ==
  /\ now < MaxTime
  /\ now' = now + 1
  /\ resp' = NoResp
  /\ UNCHANGED <<flow, streams, cache, events, muxNext, clipRuns, req, catalog>>

----------------------------------------------------------------------------
(* mutant: a missed lookup is answered "OK" *)
NotFoundAsOk(ev, in) == Reply(Response("webhook", ev, in, 200, "none", "none", <<>>, 0, Pre))

(* db.stream.findFirst({ where: { muxStreamId } }) misses: "Stream not found" *)
NotFound(ev, in) == Reply(Response("webhook", ev, in, 404, "none", "none", <<>>, 0, Pre))

(* the handler returns "OK" without having looked at or written any store *)
Ok(ev, in) == Reply(Response("webhook", ev, in, 200, "none", "none", <<>>, 0, Pre))

(* mutant: the stricter active branch writes the event's playback id over a stored one *)
ActiveStrictOverwrite(r, in, sess, pb) ==
  LET found == FindByMux(sess)
      sid == CHOOSE s \in found : TRUE
      snap == streams[sid]
      upd == IF pb # NoId THEN [muxPlaybackId |-> pb] ELSE <<>>
      writes == IF DOMAIN upd # {} THEN {"cache", "record"} ELSE {"cache"}
  IN
  IF found = {} THEN NotFound("active", in)
  ELSE Start(r, Running("webhook", "active", in, sid, <<writes>>, upd, "live", "none", snap))

(* stricter video.live_stream.active: cache "live", playback id if new, status untouched *)
ActiveStrict(r, in, sess, pb) ==
  LET found == FindByMux(sess)
      sid == CHOOSE s \in found : TRUE
      snap == streams[sid]
      upd == IF pb # NoId /\ snap.muxPlaybackId = NoId THEN [muxPlaybackId |-> pb] ELSE <<>>
      writes == IF DOMAIN upd # {} THEN {"cache", "record"} ELSE {"cache"}
  IN
  IF found = {} THEN NotFound("active", in)
  ELSE Start(r, Running("webhook", "active", in, sid, <<writes>>, upd, "live", "none", snap))

(* mutant: the looser handler forgets the status update and the event *)
ActiveLooseCacheOnly(r, in, sess, pb) == ActiveStrict(r, in, sess, pb)

(* looser video.live_stream.active: cache "live", STREAM_STARTED, status LIVE + startedAt *)
ActiveLoose(r, in, sess, pb) ==
  LET found == FindByMux(sess)
      sid == CHOOSE s \in found : TRUE
      snap == streams[sid]
      upd == IF pb # NoId /\ snap.muxPlaybackId = NoId
             THEN [status |-> "LIVE", startedAt |-> now, muxPlaybackId |-> pb]
             ELSE [status |-> "LIVE", startedAt |-> now]
  IN
  IF found = {} THEN NotFound("active", in)
  ELSE /\ EventRoom
       /\ Start(r, Running("webhook", "active", in, sid, <<{"cache", "event", "record"}>>,
                           upd, "live", "STREAM_STARTED", snap))

(* mutant: the idle branch without its cache write *)
IdleEventNoCache(r, in, sess) ==
  LET found == FindByMux(sess)
      sid == CHOOSE s \in found : TRUE
  IN
  IF found = {} THEN NotFound("idle", in)
  ELSE /\ EventRoom
       /\ Start(r, Running("webhook", "idle", in, sid, <<{"event", "record"}>>,
                           [status |-> "ENDED", endedAt |-> now],
                           "ended", "STREAM_ENDED", streams[sid]))

(* mutant: the idle branch without its StreamEvent *)
IdleEventNoLog(r, in, sess) ==
  LET found == FindByMux(sess)
      sid == CHOOSE s \in found : TRUE
  IN
  IF found = {} THEN NotFound("idle", in)
  ELSE Start(r, Running("webhook", "idle", in, sid, <<{"cache", "record"}>>,
                        [status |-> "ENDED", endedAt |-> now],
                        "ended", "STREAM_ENDED", streams[sid]))

(* video.live_stream.idle (the same in both versions): cache "ended", STREAM_ENDED,
   status ENDED + endedAt, issued together *)
IdleEvent(r, in, sess) ==
  LET found == FindByMux(sess)
      sid == CHOOSE s \in found : TRUE
  IN
  IF found = {} THEN NotFound("idle", in)
  ELSE /\ EventRoom
       /\ Start(r, Running("webhook", "idle", in, sid, <<{"cache", "event", "record"}>>,
                           [status |-> "ENDED", endedAt |-> now],
                           "ended", "STREAM_ENDED", streams[sid]))

(* mutant: asset-ready stores the asset whether or not one is already stored *)
AssetStrictOverwrite(r, in, sess, asset, apb, cat) ==
  LET found == FindByMux(sess)
      sid == CHOOSE s \in found : TRUE
      createdAt == IF cat # NoTime THEN cat ELSE now
  IN
  IF sess = NoId THEN Ok("asset", in)
  ELSE IF found = {} THEN NotFound("asset", in)
  ELSE Start(r, Running("webhook", "asset", in, sid, <<{"record"}, {"clipStart"}>>,
                        [muxAssetId |-> asset, muxAssetCreatedAt |-> createdAt],
                        "none", "none", streams[sid]))

(* stricter video.asset.ready: store the asset once, then start clip generation *)
AssetStrict(r, in, sess, asset, apb, cat) ==
  LET found == FindByMux(sess)
      sid == CHOOSE s \in found : TRUE
      snap == streams[sid]
      createdAt == IF cat # NoTime THEN cat ELSE now
      upd == IF apb # NoId
             THEN [muxAssetId |-> asset, muxAssetCreatedAt |-> createdAt,
                   muxAssetPlaybackId |-> apb]
             ELSE [muxAssetId |-> asset, muxAssetCreatedAt |-> createdAt]
  IN
  IF sess = NoId THEN Ok("asset", in)
  ELSE IF found = {} THEN NotFound("asset", in)
  ELSE IF snap.muxAssetId = NoId
       THEN Start(r, Running("webhook", "asset", in, sid, <<{"record"}, {"clipStart"}>>,
                             upd, "none", "none", snap))
       ELSE Reply(Response("webhook", "asset", in, 200, "none", sid, <<>>, 0, Pre))

(* looser video.asset.ready: only fills in a missing muxPlaybackId *)
AssetLoose(r, in, sess, apb) ==
  LET found == FindByMux(sess)
      sid == CHOOSE s \in found : TRUE
      snap == streams[sid]
  IN
  IF apb = NoId THEN Ok("asset", in)
  ELSE IF sess = NoId THEN Ok("asset", in)
  ELSE IF found = {} THEN NotFound("asset", in)
  ELSE IF snap.muxPlaybackId = NoId
       THEN Start(r, Running("webhook", "asset", in, sid, <<{"record"}>>,
                             [muxPlaybackId |-> apb], "none", "none", snap))
       ELSE Reply(Response("webhook", "asset", in, 200, "none", sid, <<>>, 0, Pre))

(* mutant: an event of any other type is handled as an idle report *)
StrictEventIdleDefault(r, in, ev, sess, pb, asset, apb, cat) ==
  IF ev = "active" THEN ActiveStrict(r, in, sess, pb)
  ELSE IF ev = "asset" THEN AssetStrict(r, in, sess, asset, apb, cat)
  ELSE IdleEvent(r, in, sess)

(* webhooks.mux.tsx, stricter version: the branch per event type of a verified event *)
StrictEvent(r, in, ev, sess, pb, asset, apb, cat) ==
  IF ev = "active" THEN ActiveStrict(r, in, sess, pb)
  ELSE IF ev = "idle" THEN IdleEvent(r, in, sess)
  ELSE IF ev = "asset" THEN AssetStrict(r, in, sess, asset, apb, cat)
  ELSE Ok(ev, in)

(* webhooks.mux.tsx, looser version: the branch per event type of a verified event *)
LooseEvent(r, in, ev, sess, pb, asset, apb, cat) ==
  IF ev = "active" THEN ActiveLoose(r, in, sess, pb)
  ELSE IF ev = "idle" THEN IdleEvent(r, in, sess)
  ELSE IF ev = "asset" THEN AssetLoose(r, in, sess, apb)
  ELSE Ok(ev, in)

(* mutant: unwrap accepts any signature *)
VerifiedAnything(sig, secret) == TRUE

(* mux.webhooks.unwrap: throws unless the signature is the body's under the secret *)
Verified(sig, secret) == sig = "good" /\ secret

(* webhooks.mux.tsx action: method check, authentication, then the event branch *)
MuxWebhook(r, method, sig, secret, ev, sess, pb, asset, apb, cat) ==
  LET hdr == [method |-> method, sig |-> sig, secret |-> secret]
      in == [method |-> method, sig |-> sig, secret |-> secret, ev |-> ev,
             sess |-> sess, pb |-> pb, asset |-> asset, apb |-> apb]
      reply(code) == Reply(Response("webhook", "unverified", hdr, code, "none", "none", <<>>, 0, Pre))
  IN
  /\ ~Busy(r)
  /\ IF method # "POST" THEN reply(405)
     ELSE IF sig = "none" THEN reply(401)
     ELSE IF ~secret THEN reply(401)
     ELSE IF ~Verified(sig, secret) THEN reply(401)
     ELSE IF flow = "strict" THEN StrictEvent(r, in, ev, sess, pb, asset, apb, cat)
     ELSE LooseEvent(r, in, ev, sess, pb, asset, apb, cat)

----------------------------------------------------------------------------
(* String.prototype.trim on the titles a form can carry *)
Trim(title) == IF title = " " THEN "" ELSE title

MerchantError(op, shop, s, err) ==
  Reply(Response("merchant", op, <<>>, 200, err, s, <<>>, 0, Pre))

(* a form handler returns { error } for the form it was given *)
FormError(op, in, s, err, pre) ==
  Reply(Response("merchant", op, in, 200, err, s, <<>>, 0, pre))

(* app.streams.new.tsx action: db.stream.create with status DRAFT *)
CreateDraft(r, shop) ==
  /\ ~Busy(r)
  /\ StreamIds \ DOMAIN streams # {}
  /\ LET s == CHOOSE x \in StreamIds \ DOMAIN streams : TRUE IN
     /\ streams' = [x \in DOMAIN streams \cup {s} |->
                      IF x = s THEN NewStream(shop, "DRAFT") ELSE streams[x]]
     /\ resp' = Response("merchant", "create", <<>>, 200, "none", s, <<>>, 0, Pre)
  /\ UNCHANGED <<flow, cache, events, now, muxNext, clipRuns, req, catalog>>

(* app.streams.new.tsx createStream: validated, DRAFT or SCHEDULED *)
CreateStream(r, shop, title, sched) ==
  /\ ~Busy(r)
  /\ StreamIds \ DOMAIN streams # {}
  /\ LET s == CHOOSE x \in StreamIds \ DOMAIN streams : TRUE
         in == [title |-> title, sched |-> sched]
     IN
     IF title = "" \/ Trim(title) = "" THEN FormError("createStream", in, "none", "title", Pre)
     ELSE IF sched # NoTime /\ sched <= now
     THEN FormError("createStream", in, "none", "schedule", Pre)
     ELSE /\ streams' = [x \in DOMAIN streams \cup {s} |->
                           IF x = s
                           THEN NewStream(shop, IF sched # NoTime THEN "SCHEDULED" ELSE "DRAFT")
                           ELSE streams[x]]
          /\ resp' = Response("merchant", "createStream", in, 200, "none", s, <<>>, 0, Pre)
          /\ UNCHANGED <<flow, cache, events, now, muxNext, clipRuns, req, catalog>>

(* mutant: a time that is exactly the current one passes as a future one *)
SaveDetailsNowIsFuture(r, op, shop, s, title, sched) ==
  LET in == [title |-> title, sched |-> sched] IN
  /\ ~Busy(r)
  /\ IF ~FindByShop(s, shop) THEN MerchantError(op, shop, s, "notfound")
     ELSE IF title = "" \/ Trim(title) = "" THEN FormError(op, in, s, "title", Pre)
     ELSE IF sched # NoTime /\ sched < now THEN FormError(op, in, s, "schedule", Pre)
     ELSE Start(r, Running("merchant", op, in, s, <<{"record"}>>,
                           [status |-> IF sched # NoTime THEN "SCHEDULED" ELSE "DRAFT",
                            title |-> Trim(title), scheduledAt |-> sched],
                           "none", "none", streams[s]))

(* the title / schedule validation and the fields written by updateStream and
   continue; sched is the time of a form with startOption "schedule", a date and a
   time, NoTime for any other form; specs that do not follow title and scheduledAt
   keep Stream rows without these two columns *)
SaveDetails(r, op, shop, s, title, sched) ==
  LET in == [title |-> title, sched |-> sched] IN
  /\ ~Busy(r)
  /\ IF ~FindByShop(s, shop) THEN MerchantError(op, shop, s, "notfound")
     ELSE IF title = "" \/ Trim(title) = "" THEN FormError(op, in, s, "title", Pre)
     ELSE IF sched # NoTime /\ sched <= now THEN FormError(op, in, s, "schedule", Pre)
     ELSE Start(r, Running("merchant", op, in, s, <<{"record"}>>,
                           [status |-> IF sched # NoTime THEN "SCHEDULED" ELSE "DRAFT",
                            title |-> Trim(title), scheduledAt |-> sched],
                           "none", "none", streams[s]))

(* app.streams.new.settings.tsx action, saveDraft: the title is validated, the
   schedule fields of the form are not read *)
SaveDraft(r, shop, s, title, sched) ==
  LET in == [title |-> title, sched |-> sched] IN
  /\ ~Busy(r)
  /\ IF ~FindByShop(s, shop) THEN MerchantError("saveDraft", shop, s, "notfound")
     ELSE IF title = "" \/ Trim(title) = "" THEN FormError("saveDraft", in, s, "title", Pre)
     ELSE Start(r, Running("merchant", "saveDraft", in, s, <<{"record"}>>,
                           [title |-> Trim(title)], "none", "none", streams[s]))

(* app.streams.$id.tsx action, updateStream *)
UpdateStream(r, shop, s, title, sched) == SaveDetails(r, "updateStream", shop, s, title, sched)

(* app.streams.new.settings.tsx action, continue *)
SettingsContinue(r, shop, s, title, sched) == SaveDetails(r, "continue", shop, s, title, sched)

(* mux.video.liveStreams.create, then db.stream.update with the new session's ids *)
CreateMuxSession(r, op, shop, s, withPb) ==
  LET id == muxNext + 1 IN
  /\ muxNext < MaxMux
  /\ muxNext' = id
  /\ req' = [req EXCEPT ![r] =
               Running("merchant", op, <<>>, s, <<{"record"}>>,
                       [muxStreamId |-> id,
                        muxPlaybackId |-> IF withPb THEN PlaybackOf(id) ELSE NoId],
                       "none", "none", streams[s])]
  /\ resp' = NoResp
  /\ UNCHANGED <<flow, streams, cache, events, now, clipRuns, catalog>>

(* app.streams.$id.tsx action, prepareStream *)
PrepareStream(r, shop, s, withPb) ==
  /\ ~Busy(r)
  /\ IF ~FindByShop(s, shop) THEN MerchantError("prepareStream", shop, s, "notfound")
     ELSE IF streams[s].muxStreamId # NoId
     THEN MerchantError("prepareStream", shop, s, "prepared")
     ELSE CreateMuxSession(r, "prepareStream", shop, s, withPb)

(* app.streams.new.preflight.tsx loader: auto-create the Mux stream if missing *)
PreflightLoader(r, shop, s, withPb) ==
  /\ ~Busy(r)
  /\ IF ~FindByShop(s, shop)
     THEN Reply(Response("merchant", "preflight", <<>>, 404, "notfound", s, <<>>, 0, Pre))
     ELSE IF streams[s].muxStreamId # NoId
     THEN Reply(Response("merchant", "preflight", <<>>, 200, "none", s, <<>>, 0, Pre))
     ELSE CreateMuxSession(r, "preflight", shop, s, withPb)

(* app.streams.new.preflight.tsx action, startStreaming: up to the readiness check *)
StartStreaming(r, shop, s) ==
  /\ ~Busy(r)
  /\ IF ~FindByShop(s, shop) THEN MerchantError("startStreaming", shop, s, "notfound")
     ELSE IF streams[s].status = "LIVE" THEN MerchantError("startStreaming", shop, s, "live")
     ELSE /\ EventRoom
          /\ Start(r, Running("merchant", "startStreaming", <<>>, s,
                              <<{"cacheGet"}, {"record"}, {"event"}>>,
                              <<>>, "none", "STREAM_STARTED", streams[s]))

(* mutant: the readiness check looks at the playback id only *)
ReadinessCheckNoCache(r, redisOk) ==
  LET q == req[r]
      isReady == q.snap.muxPlaybackId # NoId
  IN
  /\ Busy(r)
  /\ q.stages # <<>>
  /\ Head(q.stages) = {"cacheGet"}
  /\ IF ~isReady
     THEN /\ resp' = Response("merchant", q.op, [redisOk |-> redisOk], 200, "notready",
                               q.sid, <<>>, 0, q.pre)
          /\ req' = [req EXCEPT ![r] = IdleReq]
     ELSE /\ resp' = NoResp
          /\ req' = [req EXCEPT ![r].stages = Tail(q.stages),
                                ![r].upd = [status |-> "LIVE", startedAt |-> now]]
  /\ UNCHANGED <<flow, streams, cache, events, now, muxNext, clipRuns, catalog>>

(* startStreaming: redis.get returns (or throws) and isReady decides *)
ReadinessCheck(r, redisOk) ==
  LET q == req[r]
      isReady == redisOk /\ cache[q.sid] = "live" /\ q.snap.muxPlaybackId # NoId
  IN
  /\ Busy(r)
  /\ q.stages # <<>>
  /\ Head(q.stages) = {"cacheGet"}
  /\ IF ~isReady
     THEN /\ resp' = Response("merchant", q.op, [redisOk |-> redisOk], 200, "notready",
                               q.sid, <<>>, 0, q.pre)
          /\ req' = [req EXCEPT ![r] = IdleReq]
     ELSE /\ resp' = NoResp
          /\ req' = [req EXCEPT ![r].stages = Tail(q.stages),
                                ![r].upd = [status |-> "LIVE", startedAt |-> now]]
  /\ UNCHANGED <<flow, streams, cache, events, now, muxNext, clipRuns, catalog>>

(* mutant: startStream sets the status without stamping startedAt *)
StartStreamNoStamp(r, shop, s) ==
  /\ ~Busy(r)
  /\ IF ~FindByShop(s, shop) THEN MerchantError("startStream", shop, s, "notfound")
     ELSE /\ EventRoom
          /\ Start(r, Running("merchant", "startStream", <<>>, s,
                              <<{"record"}, {"event"}>>,
                              [status |-> "LIVE"],
                              "none", "STREAM_STARTED", streams[s]))

(* part_010 (stream dashboard action), startStream *)
StartStream(r, shop, s) ==
  /\ ~Busy(r)
  /\ IF ~FindByShop(s, shop) THEN MerchantError("startStream", shop, s, "notfound")
     ELSE /\ EventRoom
          /\ Start(r, Running("merchant", "startStream", <<>>, s,
                              <<{"record"}, {"event"}>>,
                              [status |-> "LIVE", startedAt |-> now],
                              "none", "STREAM_STARTED", streams[s]))

(* mutant: endStream also marks the cache entry "ended" *)
EndStreamClearsCache(r, shop, s) ==
  /\ ~Busy(r)
  /\ IF ~FindByShop(s, shop) THEN MerchantError("endStream", shop, s, "notfound")
     ELSE /\ EventRoom
          /\ Start(r, Running("merchant", "endStream", <<>>, s,
                              <<{"record"}, {"event"}, {"cache"}>>,
                              [status |-> "ENDED", endedAt |-> now],
                              "ended", "STREAM_ENDED", streams[s]))

(* app.streams.$id.live.tsx action, endStream *)
EndStream(r, shop, s) ==
  /\ ~Busy(r)
  /\ IF ~FindByShop(s, shop) THEN MerchantError("endStream", shop, s, "notfound")
     ELSE /\ EventRoom
          /\ Start(r, Running("merchant", "endStream", <<>>, s,
                              <<{"record"}, {"event"}>>,
                              [status |-> "ENDED", endedAt |-> now],
                              "none", "STREAM_ENDED", streams[s]))

----------------------------------------------------------------------------
(* one awaited write reaches its store *)
Land(r, w) ==
  LET q == req[r]
      rest == Head(q.stages) \ {w}
      stages == IF rest = {} THEN Tail(q.stages) ELSE <<rest>> \o Tail(q.stages)
  IN
  /\ Busy(r)
  /\ q.pc = "run"
  /\ q.stages # <<>>
  /\ w \in Head(q.stages)
  /\ w \in {"cache", "event", "record", "clipStart"}
  /\ cache' = IF w = "cache" THEN [cache EXCEPT ![q.sid] = q.cacheVal] ELSE cache
  /\ events' = IF w = "event"
               THEN Append(events, [stream |-> q.sid, type |-> q.evType]) ELSE events
  /\ streams' = IF w = "record"
                THEN [streams EXCEPT ![q.sid] = Update(@, q.upd)] ELSE streams
  /\ clipRuns' = IF w = "clipStart" THEN [clipRuns EXCEPT ![q.sid] = @ + 1] ELSE clipRuns
  /\ req' = [req EXCEPT ![r].stages = stages,
                        ![r].appended = IF w = "event" THEN Append(@, q.evType) ELSE @,
                        ![r].clips = IF w = "clipStart" THEN @ + 1 ELSE @,
                        ![r].done = @ \cup {w}]
  /\ resp' = NoResp
  /\ UNCHANGED <<flow, now, muxNext, catalog>>

(* mutant: a failed write undoes what its siblings have written *)
WriteFailsRollback(r, w) ==
  LET q == req[r] IN
  /\ Busy(r)
  /\ q.pc = "run"
  /\ q.kind = "webhook"
  /\ q.lost = {}
  /\ q.stages # <<>>
  /\ w \in Head(q.stages)
  /\ w \in {"cache", "event", "record"}
  /\ streams' = q.pre.streams
  /\ cache' = q.pre.cache
  /\ events' = q.pre.events
  /\ req' = [req EXCEPT ![r].stages = <<>>, ![r].lost = {w}]
  /\ resp' = Response(q.kind, q.op, q.in, 500, "failed", q.sid, q.appended, q.clips, q.pre)
  /\ UNCHANGED <<flow, now, muxNext, clipRuns, catalog>>

(* one write of a webhook handler's batch rejects: Promise.all rejects, the catch
   answers 500 and nothing later is issued; the siblings already issued are not
   awaited any more, and still reach their stores or fail on their own *)
WriteFails(r, w) ==
  LET q == req[r]
      rest == Head(q.stages) \ {w}
  IN
  /\ Busy(r)
  /\ q.pc = "run"
  /\ q.kind = "webhook"
  /\ q.stages # <<>>
  /\ w \in Head(q.stages)
  /\ w \in {"cache", "event", "record"}
  /\ req' = [req EXCEPT ![r].stages = IF rest = {} THEN <<>> ELSE <<rest>>,
                        ![r].lost = @ \cup {w}]
  /\ resp' = IF q.lost = {}
             THEN Response(q.kind, q.op, q.in, 500, "failed", q.sid, q.appended, q.clips, q.pre)
             ELSE NoResp
  /\ UNCHANGED <<flow, streams, cache, events, now, muxNext, clipRuns, catalog>>

(* all awaited writes are done: the handler returns its response *)
Finish(r) ==
  LET q == req[r] IN
  /\ Busy(r)
  /\ q.pc = "run"
  /\ q.stages = <<>>
  /\ resp' = IF q.lost = {}
             THEN Response(q.kind, q.op, q.in, 200, "none", q.sid, q.appended, q.clips, q.pre)
             ELSE NoResp
  /\ req' = [req EXCEPT ![r] = IdleReq]
  /\ UNCHANGED <<flow, streams, cache, events, now, muxNext, clipRuns, catalog>>

----------------------------------------------------------------------------
(* Inputs *)
Forms == {[title |-> "Sale", sched |-> NoTime], [title |-> "Sale", sched |-> 1],
          [title |-> "Sale", sched |-> MaxTime + 1], [title |-> "", sched |-> NoTime],
          [title |-> " ", sched |-> MaxTime + 1]}
Sigs == {"none", "bad", "good"}
EventTypes == {"active", "idle", "asset", "other"}

(* merchant requests on the stream lifecycle *)
Merchant(r) ==
  \/ \E shop \in Shops : CreateDraft(r, shop)
  \/ \E shop \in Shops, f \in Forms : CreateStream(r, shop, f.title, f.sched)
  \/ \E shop \in Shops, s \in StreamIds, f \in Forms : UpdateStream(r, shop, s, f.title, f.sched)
  \/ \E shop \in Shops, s \in StreamIds, f \in Forms :
       SettingsContinue(r, shop, s, f.title, f.sched)
  \/ \E shop \in Shops, s \in StreamIds, withPb \in BOOLEAN : PrepareStream(r, shop, s, withPb)
  \/ \E shop \in Shops, s \in StreamIds, withPb \in BOOLEAN : PreflightLoader(r, shop, s, withPb)
  \/ \E shop \in Shops, s \in StreamIds : StartStreaming(r, shop, s)
  \/ \E shop \in Shops, s \in StreamIds : StartStream(r, shop, s)
  \/ \E shop \in Shops, s \in StreamIds : EndStream(r, shop, s)

(* webhook deliveries that fail authentication, and a non-POST request *)
Unauthenticated(r) ==
  \/ \E sig \in Sigs, secret \in BOOLEAN, ev \in EventTypes, sess \in {1, UnknownSess} :
       /\ ~(sig = "good" /\ secret)
       /\ MuxWebhook(r, "POST", sig, secret, ev, sess, NoId, 21, NoId, NoTime)
  \/ \E ev \in EventTypes : MuxWebhook(r, "GET", "good", TRUE, ev, 1, NoId, NoId, NoId, NoTime)

(* signed encoder events, and signed events of a type the handler does not know *)
EncoderEvents(r, sessions, playbacks) ==
  \/ \E sess \in sessions, pb \in playbacks :
       MuxWebhook(r, "POST", "good", TRUE, "active", sess, pb, NoId, NoId, NoTime)
  \/ \E sess \in sessions, ev \in {"idle", "other"} :
       MuxWebhook(r, "POST", "good", TRUE, ev, sess, NoId, NoId, NoId, NoTime)

(* signed asset-ready events *)
AssetEvents(r, sessions, assets) ==
  \E lsid \in {NoId} \cup sessions, asset \in assets, apb \in {NoId, 31}, cat \in {NoTime, 1} :
    MuxWebhook(r, "POST", "good", TRUE, "asset", lsid, NoId, asset, apb, cat)

(* the awaited steps of a handler in flight *)
Steps(r) ==
  \/ \E redisOk \in BOOLEAN : ReadinessCheck(r, redisOk)
  \/ \E w \in {"cache", "event", "record", "clipStart"} : Land(r, w)
  \/ Finish(r)

(* requests are handled one at a time *)
Next ==
  \/ Tick
  \/ Merchant("r1")
  \/ Unauthenticated("r1")
  \/ EncoderEvents("r1", {1, UnknownSess}, {NoId, PlaybackOf(2)})
  \/ Steps("r1")
Spec == Init /\ [][Next]_vars

(* the webhook endpoint fed every event type, on streams a merchant has created,
   prepared, started and ended *)
NextWebhook ==
  \/ Tick
  \/ \E shop \in Shops : CreateDraft("r1", shop)
  \/ \E s \in StreamIds, withPb \in BOOLEAN : PrepareStream("r1", "shopA", s, withPb)
  \/ \E s \in StreamIds : StartStream("r1", "shopA", s)
  \/ \E s \in StreamIds : EndStream("r1", "shopA", s)
  \/ EncoderEvents("r1", {1, UnknownSess}, {NoId, PlaybackOf(2)})
  \/ AssetEvents("r1", {1, UnknownSess}, {21, 22})
  \/ \E w \in {"cache", "event", "record", "clipStart"} : Land("r1", w)
  \/ Finish("r1")
SpecWebhook == Init /\ [][NextWebhook]_vars

(* start, end and prepare requests for one stream overlapping: two handlers in flight *)
NextRace ==
  \/ Tick
  \/ CreateDraft("r1", "shopA")
  \/ EncoderEvents("r1", {1}, {NoId})
  \/ \E r \in {"r1", "r2"} :
       \/ \E s \in StreamIds : PrepareStream(r, "shopA", s, TRUE)
       \/ \E s \in StreamIds : PreflightLoader(r, "shopA", s, TRUE)
       \/ \E s \in StreamIds : StartStreaming(r, "shopA", s)
       \/ \E s \in StreamIds : StartStream(r, "shopA", s)
       \/ \E s \in StreamIds : EndStream(r, "shopA", s)
       \/ Steps(r)
SpecRace == Init /\ [][NextRace]_vars

----------------------------------------------------------------------------
(* the Stream a webhook's session id resolved to when the request started *)
Resolved(q) == {s \in DOMAIN q.pre.streams : q.pre.streams[s].muxStreamId = q.in.sess}
Unchanged(q) ==
  /\ streams = q.pre.streams
  /\ cache = q.pre.cache
  /\ events = q.pre.events
  /\ clipRuns = q.pre.clipRuns

(* C1: a POST to the webhook that cannot be authenticated (no Mux-Signature header,
   no signing secret configured, or a signature that does not verify) is answered
   401 and leaves every Stream, cache entry and StreamEvent as it was; no such
   request ever gets as far as issuing a write. *)
C1_UnauthenticatedRejected ==
  /\ (resp.kind = "webhook" /\ resp.in.method = "POST"
        /\ (resp.in.sig = "none" \/ ~resp.in.secret \/ resp.in.sig = "bad"))
       => (resp.code = 401 /\ Unchanged(resp))
  /\ \A r \in DOMAIN req :
       (Busy(r) /\ req[r].kind = "webhook") => (req[r].in.sig = "good" /\ req[r].in.secret)

C1_Witness ==
  /\ resp.kind = "webhook" /\ resp.code = 401
  /\ resp.in.sig = "good" /\ ~resp.in.secret
  /\ \E s \in DOMAIN streams : streams[s].muxStreamId # NoId /\ streams[s].status = "LIVE"

(* C3: a Stream whose status is LIVE has a startedAt. *)
C3_LiveHasStartedAt ==
  \A s \in DOMAIN streams : streams[s].status = "LIVE" => streams[s].startedAt # NoTime

C3_Witness == \E s \in DOMAIN streams : streams[s].status = "LIVE" /\ flow = "strict"

(* C5: once a Stream is ENDED its status never changes again. *)
C5_EndedIsTerminal ==
  [][\A s \in DOMAIN streams :
       streams[s].status = "ENDED" => streams'[s].status = "ENDED"]_vars

(* C6: a status changes from DRAFT or SCHEDULED to LIVE only by the record write of
   a merchant start request (startStreaming / startStream). *)
C6_LiveOnlyByMerchant ==
  [][\A s \in DOMAIN streams :
       (streams[s].status \in {"DRAFT", "SCHEDULED"} /\ streams'[s].status = "LIVE")
         => \E r \in DOMAIN req :
              /\ Busy(r) /\ req[r].kind = "merchant"
              /\ req[r].op \in {"startStreaming", "startStream"}
              /\ req'[r] # req[r]]_vars

(* C8: a verified encoder-idle event whose session id resolves to a Stream, in
   whatever status, is answered 200 and leaves the cache entry "ended", the status
   ENDED, endedAt set and exactly one STREAM_ENDED event appended by the request. *)
C8_IdleEndsStream ==
  (resp.kind = "webhook" /\ resp.op = "idle" /\ Resolved(resp) # {})
    => \A s \in Resolved(resp) :
         /\ resp.code = 200
         /\ cache[s] = "ended"
         /\ streams[s].status = "ENDED"
         /\ streams[s].endedAt # NoTime
         /\ resp.appended = <<"STREAM_ENDED">>
         /\ events = Append(resp.pre.events, [stream |-> s, type |-> "STREAM_ENDED"])

C8_Witness ==
  /\ resp.kind = "webhook" /\ resp.op = "idle" /\ resp.code = 200
  /\ \E s \in Resolved(resp) : resp.pre.streams[s].status = "DRAFT"

(* C9: in the looser handler a verified encoder-active event for a known DRAFT or
   SCHEDULED stream leaves the cache entry "live", the status LIVE, startedAt set
   and exactly one STREAM_STARTED event appended by the request. *)
C9_LooseActiveStarts ==
  (flow = "loose" /\ resp.kind = "webhook" /\ resp.op = "active")
    => \A s \in Resolved(resp) :
         resp.pre.streams[s].status \in {"DRAFT", "SCHEDULED"}
           => /\ resp.code = 200
              /\ cache[s] = "live"
              /\ streams[s].status = "LIVE"
              /\ streams[s].startedAt # NoTime
              /\ resp.appended = <<"STREAM_STARTED">>
              /\ events = Append(resp.pre.events, [stream |-> s, type |-> "STREAM_STARTED"])

C9_Witness ==
  /\ flow = "loose" /\ resp.kind = "webhook" /\ resp.op = "active" /\ resp.code = 200
  /\ \E s \in Resolved(resp) : resp.pre.streams[s].status = "SCHEDULED"

Signed(q) == q.in.method = "POST" /\ q.in.sig = "good" /\ q.in.secret

(* C2 as claimed: a verified encoder-active, encoder-idle or asset-ready event whose
   session id matches no Stream is answered 404 and changes nothing. *)
C2_UnknownSession404 ==
  (resp.kind = "webhook" /\ Signed(resp) /\ resp.op \in {"active", "idle", "asset"}
     /\ resp.in.sess # NoId /\ Resolved(resp) = {})
    => (resp.code = 404 /\ Unchanged(resp))

(* C2 amended: such an event changes no Stream, cache entry or StreamEvent and is
   answered 404, except that the looser handler answers 200 to an asset-ready event
   that carries no playback id, which it drops before looking the stream up. *)
C2_UnknownSessionNoChange ==
  (resp.kind = "webhook" /\ Signed(resp) /\ resp.op \in {"active", "idle", "asset"}
     /\ resp.in.sess # NoId /\ Resolved(resp) = {})
    => /\ Unchanged(resp)
       /\ resp.code = IF flow = "loose" /\ resp.op = "asset" /\ resp.in.apb = NoId
                      THEN 200 ELSE 404

C2_Witness ==
  /\ resp.kind = "webhook" /\ Signed(resp) /\ resp.op = "idle" /\ resp.code = 404
  /\ resp.in.sess # NoId /\ Resolved(resp) = {}
  /\ \E s \in DOMAIN streams : streams[s].status = "DRAFT" /\ streams[s].muxStreamId = NoId

(* C10: an asset-ready event for a Stream whose muxAssetId is already set (the same
   asset again, or another asset) changes no Stream field, starts no clip
   generation and is answered 200. *)
C10_AssetReadyIdempotent ==
  (resp.kind = "webhook" /\ Signed(resp) /\ resp.op = "asset")
    => \A s \in Resolved(resp) :
         resp.pre.streams[s].muxAssetId # NoId
           => /\ resp.code = 200
              /\ streams = resp.pre.streams
              /\ resp.clips = 0
              /\ clipRuns = resp.pre.clipRuns

C10_Witness ==
  /\ resp.kind = "webhook" /\ Signed(resp) /\ resp.op = "asset" /\ resp.code = 200
  /\ \E s \in Resolved(resp) :
       /\ resp.pre.streams[s].muxAssetId # NoId
       /\ resp.pre.streams[s].muxAssetId # resp.in.asset

(* C4: every ENDED Stream has endedAt set, and endedAt is not before startedAt,
   whatever the interleaving of start and end requests. *)
C4_EndedAfterStarted ==
  \A s \in DOMAIN streams :
    streams[s].status = "ENDED"
      => /\ streams[s].endedAt # NoTime
         /\ streams[s].startedAt # NoTime => streams[s].endedAt >= streams[s].startedAt

(* C7: a muxStreamId once set is never cleared or replaced, also when two
   prepare or preflight requests for the same Stream overlap. *)
C7_MuxStreamIdKept ==
  [][\A s \in DOMAIN streams :
       streams[s].muxStreamId # NoId => streams'[s].muxStreamId = streams[s].muxStreamId]_vars

----------------------------------------------------------------------------
(* the lifecycle events a finished request appended, and the transitions it made *)
Count(seq, x) == Cardinality({i \in 1..Len(seq) : seq[i] = x})
Entered(q, status) ==
  IF q.pre.streams[q.sid].status # status /\ streams[q.sid].status = status THEN 1 ELSE 0

(* C11: a request appends one STREAM_STARTED per change of the status into LIVE and
   one STREAM_ENDED per change of the status into ENDED, no more and no fewer; with
   requests handled one at a time the totals over a history are the sums of these. *)
C11_EventPerTransition ==
  (resp.kind \in {"merchant", "webhook"} /\ resp.sid \in DOMAIN resp.pre.streams)
    => /\ Count(resp.appended, "STREAM_STARTED") = Entered(resp, "LIVE")
       /\ Count(resp.appended, "STREAM_ENDED") = Entered(resp, "ENDED")

(* C12: a successful merchant start leaves the status LIVE, startedAt and
   liveStartedAt stamped and one STREAM_STARTED event appended. *)
C12_StartStampsBoth ==
  (resp.kind = "merchant" /\ resp.op \in {"startStreaming", "startStream"}
     /\ resp.err = "none")
    => /\ streams[resp.sid].status = "LIVE"
       /\ streams[resp.sid].startedAt # NoTime
       /\ streams[resp.sid].liveStartedAt # NoTime
       /\ resp.appended = <<"STREAM_STARTED">>

(* C19: startStreaming makes a stream LIVE only if the cache entry was "live" and
   the stream had a muxPlaybackId; when the cache entry is absent or "ended", the
   cache read fails or there is no playback id, it answers with an error and the
   stream, the cache and the event log stay as they were. *)
C19_StartNeedsReadiness ==
  (resp.kind = "merchant" /\ resp.op = "startStreaming"
     /\ resp.sid \in DOMAIN resp.pre.streams)
    => LET ready == /\ resp.pre.cache[resp.sid] = "live"
                    /\ resp.pre.streams[resp.sid].muxPlaybackId # NoId
       IN /\ resp.err = "none" => (ready /\ streams[resp.sid].status = "LIVE")
          /\ resp.err # "none" => Unchanged(resp)
          /\ resp.err = "notready" => (~ready \/ ~resp.in.redisOk)

C19_Witness ==
  /\ resp.kind = "merchant" /\ resp.op = "startStreaming" /\ resp.err = "notready"
  /\ resp.pre.cache[resp.sid] = "ended"
  /\ resp.pre.streams[resp.sid].muxPlaybackId # NoId
  /\ resp.pre.streams[resp.sid].status = "ENDED"

(* C20: in the stricter handler an encoder-active event for a known stream sets the
   cache entry "live", writes muxPlaybackId only if the event carries one and the
   Stream has none, and changes no other Stream field and no StreamEvent. *)
C20_StrictActiveFrame ==
  (flow = "strict" /\ resp.kind = "webhook" /\ resp.op = "active")
    => \A s \in Resolved(resp) :
         LET old == resp.pre.streams[s] IN
         /\ resp.code = 200
         /\ cache[s] = "live"
         /\ events = resp.pre.events
         /\ streams[s] = IF resp.in.pb # NoId /\ old.muxPlaybackId = NoId
                         THEN [old EXCEPT !.muxPlaybackId = resp.in.pb] ELSE old

C20_Witness ==
  /\ flow = "strict" /\ resp.kind = "webhook" /\ resp.op = "active" /\ resp.code = 200
  /\ resp.in.pb # NoId
  /\ \E s \in Resolved(resp) :
       /\ resp.pre.streams[s].muxPlaybackId = NoId
       /\ resp.pre.streams[s].status = "SCHEDULED"
       /\ streams[s].muxPlaybackId = resp.in.pb

----------------------------------------------------------------------------
(* Product lineup: the StreamProduct rows of a stream and the merchant actions
   that add, remove and reorder them. *)
MaxRows == 3
MaxList == 2

LineupStreams == {"s1", "s2"}
ProductIds == {"p1", "p2"}
NoRow == [stream |-> "none", productId |-> "none", position |-> 0, featuredAt |-> NoTime]
Row(s, p, pos) == [stream |-> s, productId |-> p, position |-> pos, featuredAt |-> NoTime]

(* the rows that exist, and include: { products: true } for one stream *)
RowIds(rows) == {i \in DOMAIN rows : rows[i] # NoRow}
LineupOf(rows, s) == {i \in RowIds(rows) : rows[i].stream = s}

(* Array.prototype.sort((a, b) => a.position - b.position) is stable: ties keep the
   order in which the rows were loaded *)
Rank(rows, S, i) ==
  Cardinality({j \in S : \/ rows[j].position < rows[i].position
                         \/ rows[j].position = rows[i].position /\ j < i})

(* Math.max(...products.map(p => p.position)), or -1 for an empty lineup *)
MaxPosition(rows, S) ==
  IF S = {} THEN -1 ELSE CHOOSE m \in {rows[i].position : i \in S} :
                           \A i \in S : rows[i].position <= m

(* ids.filter(id => !existing.has(id)): the order of the survivors is kept *)
RECURSIVE Filter(_, _)
Filter(seq, drop) ==
  IF seq = <<>> THEN <<>>
  ELSE IF Head(seq).productId \in drop THEN Filter(Tail(seq), drop)
  ELSE <<Head(seq)>> \o Filter(Tail(seq), drop)

(* one write to the StreamProduct or Stream table *)
Write(k, id, ids, rows, position, stream) ==
  [k |-> k, id |-> id, ids |-> ids, rows |-> rows, position |-> position, stream |-> stream]
Delete(id) == Write("delete", id, {}, <<>>, 0, "none")
DeleteMany(ids, s) == Write("deleteMany", 0, ids, <<>>, 0, s)
DeleteAll(s) == Write("deleteAll", 0, {}, <<>>, 0, s)
SetPosition(id, pos) == Write("update", id, {}, <<>>, pos, "none")
CreateMany(rows, s) == Write("createMany", 0, {}, rows, 0, s)
SetStatus(s, status) == Write("stream", 0, {}, <<>>, 0, [id |-> s, status |-> status])

(* prisma delete / update of a row that does not exist throws *)
Fails(rows, w) == w.k \in {"delete", "update"} /\ w.id \notin RowIds(rows)

ApplyWrite(rows, w) ==
  CASE w.k = "delete" -> [rows EXCEPT ![w.id] = NoRow]
    [] w.k = "deleteMany" ->
         [i \in DOMAIN rows |-> IF i \in w.ids /\ rows[i].stream = w.stream
                                THEN NoRow ELSE rows[i]]
    [] w.k = "deleteAll" ->
         [i \in DOMAIN rows |-> IF rows[i].stream = w.stream THEN NoRow ELSE rows[i]]
    [] w.k = "update" -> [rows EXCEPT ![w.id].position = w.position]
    [] w.k = "createMany" ->
         rows \o [i \in 1..Len(w.rows) |->
                    Row(w.stream, w.rows[i].productId, w.rows[i].position)]
    [] OTHER -> rows

(* db.$transaction([...]): the writes in order, all or none *)
RECURSIVE ApplyAll(_, _)
ApplyAll(rows, ws) ==
  IF ws = <<>> THEN rows ELSE ApplyAll(ApplyWrite(rows, Head(ws)), Tail(ws))
RECURSIVE AnyFails(_, _)
AnyFails(rows, ws) ==
  IF ws = <<>> THEN FALSE
  ELSE Fails(rows, Head(ws)) \/ AnyFails(ApplyWrite(rows, Head(ws)), Tail(ws))

(* the tables as a lineup request finds them when it starts *)
PreRows == [streams |-> streams, products |-> products]

Single(w) == [mode |-> "all", ws |-> <<w>>]
All(ws) == [mode |-> "all", ws |-> ws]
Transaction(ws) == [mode |-> "tx", ws |-> ws]
NonEmpty(stages) == SelectSeq(stages, LAMBDA st : st.ws # <<>>)

(* rows the writes still to land will create *)
RowsPending(stages) ==
  LET n[k \in 0..Len(stages)] ==
        IF k = 0 THEN 0
        ELSE n[k - 1] + (IF stages[k].ws # <<>> /\ stages[k].ws[1].k = "createMany"
                         THEN Len(stages[k].ws[1].rows) ELSE 0)
  IN n[Len(stages)]

(* a lineup handler that has loaded existingStream and issued its writes *)
StartLineup(r, op, in, s, stages) ==
  /\ Len(products) + RowsPending(stages) <= MaxRows
  /\ req' = [req EXCEPT ![r] = [pc |-> "lineup", kind |-> "merchant", op |-> op, in |-> in,
                                sid |-> s, writes |-> NonEmpty(stages), failed |-> FALSE,
                                pre |-> PreRows]]
  /\ resp' = NoResp
  /\ UNCHANGED <<flow, streams, cache, events, now, muxNext, clipRuns, catalog>>

(* a lineup handler that returns before any write *)
LineupError(op, in, s, err) ==
  Reply(Response("merchant", op, <<>>, 200, err, s, <<>>, 0, <<>>))

(* app.streams.$id.tsx action, addProducts *)
AddProducts(r, shop, s, productIds) ==
  LET in == [shop |-> shop, id |-> 0]
      existing == LineupOf(products, s)
      maxPosition == MaxPosition(products, existing)
      fresh == Filter([i \in 1..Len(productIds) |-> [productId |-> productIds[i]]],
                      {products[i].productId : i \in existing})
      newProducts == [i \in 1..Len(fresh) |->
                        [productId |-> fresh[i].productId, position |-> maxPosition + (i - 1) + 1]]
  IN
  /\ ~Busy(r)
  /\ IF ~FindByShop(s, shop) THEN LineupError("addProducts", in, s, "notfound")
     ELSE IF productIds = <<>> THEN LineupError("addProducts", in, s, "empty")
     ELSE StartLineup(r, "addProducts", in, s,
                      IF newProducts # <<>> THEN <<Single(CreateMany(newProducts, s))>> ELSE <<>>)

(* mutant: removeProduct deletes the row and leaves the other positions alone *)
RemoveProductNoReindex(r, shop, s, streamProductId) ==
  LET in == [shop |-> shop, id |-> streamProductId] IN
  /\ ~Busy(r)
  /\ IF ~FindByShop(s, shop) THEN LineupError("removeProduct", in, s, "notfound")
     ELSE StartLineup(r, "removeProduct", in, s, <<Single(Delete(streamProductId))>>)

(* app.streams.$id.tsx action, removeProduct: delete by id, then reindex what the
   handler had loaded *)
RemoveProduct(r, shop, s, streamProductId) ==
  LET in == [shop |-> shop, id |-> streamProductId]
      remaining == LineupOf(products, s) \ {streamProductId}
      order == [k \in 1..Cardinality(remaining) |->
                  CHOOSE i \in remaining : Rank(products, remaining, i) = k - 1]
      reindex == [k \in 1..Len(order) |-> SetPosition(order[k], k - 1)]
  IN
  /\ ~Busy(r)
  /\ IF ~FindByShop(s, shop) THEN LineupError("removeProduct", in, s, "notfound")
     ELSE StartLineup(r, "removeProduct", in, s,
                      <<Single(Delete(streamProductId)), All(reindex)>>)

(* app.streams.$id.tsx action, reorderProduct: swap with the neighbour *)
ReorderProduct(r, shop, s, streamProductId, direction) ==
  LET in == [shop |-> shop, id |-> streamProductId]
      lineup == LineupOf(products, s)
      currentPosition == products[streamProductId].position
      newPosition == IF direction = "up" THEN currentPosition - 1 ELSE currentPosition + 1
      targets == {i \in lineup : products[i].position = newPosition}
      target == CHOOSE i \in targets : \A j \in targets : i <= j
  IN
  /\ ~Busy(r)
  /\ IF ~FindByShop(s, shop) THEN LineupError("reorderProduct", in, s, "notfound")
     ELSE IF streamProductId \notin lineup
     THEN LineupError("reorderProduct", in, s, "notinlineup")
     ELSE StartLineup(r, "reorderProduct", in, s,
                      IF targets = {} THEN <<>>
                      ELSE <<Transaction(<<SetPosition(streamProductId, newPosition),
                                           SetPosition(target, currentPosition)>>)>>)

(* one entry of the lineupOrder form field *)
Item(isNew, sp, productId, position) ==
  [isNew |-> isNew, streamProductId |-> sp, productId |-> productId, position |-> position]

(* app.streams.$id.tsx action, updateStream, with its lineup handling: the Stream
   update, removedProducts, then lineupOrder (new products, position updates) or
   else the newProductIds fallback *)
UpdateLineup(r, shop, s, title, sched, removed, order, newProductIds) ==
  LET in == [shop |-> shop, id |-> 0, title |-> title, sched |-> sched]
      status == IF sched # NoTime THEN "SCHEDULED" ELSE "DRAFT"
      remaining == LineupOf(products, s) \ removed
      existingProductIds == {products[i].productId : i \in remaining}
      newProductsToAdd ==
        SelectSeq(order.items, LAMBDA it : it.isNew /\ it.productId # "none")
      existingProductUpdates ==
        SelectSeq(order.items, LAMBDA it : ~(it.isNew /\ it.productId # "none")
                                           /\ it.streamProductId # 0 /\ ~it.isNew)
      uniqueNewProducts == Filter(newProductsToAdd, existingProductIds)
      created == [i \in 1..Len(uniqueNewProducts) |->
                    [productId |-> uniqueNewProducts[i].productId,
                     position |-> uniqueNewProducts[i].position]]
      updates == [i \in 1..Len(existingProductUpdates) |->
                    SetPosition(existingProductUpdates[i].streamProductId,
                                existingProductUpdates[i].position)]
      uniqueNewProductIds ==
        Filter([i \in 1..Len(newProductIds) |-> [productId |-> newProductIds[i]]],
               existingProductIds)
      maxPosition == MaxPosition(products, remaining)
      appended == [i \in 1..Len(uniqueNewProductIds) |->
                     [productId |-> uniqueNewProductIds[i].productId,
                      position |-> maxPosition + (i - 1) + 1]]
      removal == IF removed # {} THEN <<DeleteMany(removed, s)>> ELSE <<>>
  IN
  /\ ~Busy(r)
  /\ IF ~FindByShop(s, shop) THEN LineupError("updateStream", in, s, "notfound")
     ELSE IF title = "" \/ Trim(title) = "" THEN FormError("updateStream", in, s, "title", <<>>)
     ELSE IF sched # NoTime /\ sched <= now
     THEN FormError("updateStream", in, s, "schedule", <<>>)
     ELSE StartLineup(r, "updateStream", in, s,
            <<Single(SetStatus(s, status)), All(removal)>>
            \o (IF order.given
                THEN <<All(IF created # <<>> THEN <<CreateMany(created, s)>> ELSE <<>>),
                       Transaction(updates)>>
                ELSE <<All(IF appended # <<>> THEN <<CreateMany(appended, s)>> ELSE <<>>)>>))

(* app.streams.new.products.tsx action, createDraftStream for an existing stream:
   delete the lineup, create it again with positions by index *)
ReplaceLineup(r, shop, s, productIds) ==
  LET in == [shop |-> shop, id |-> 0]
      rows == [i \in 1..Len(productIds) |-> [productId |-> productIds[i], position |-> i - 1]]
  IN
  /\ ~Busy(r)
  /\ IF productIds = <<>> THEN LineupError("createDraftStream", in, s, "empty")
     ELSE IF ~FindByShop(s, shop) THEN LineupError("createDraftStream", in, s, "notfound")
     ELSE StartLineup(r, "createDraftStream", in, s,
                      <<Single(DeleteAll(s)), Single(CreateMany(rows, s))>>)

(* app.streams.new.products.tsx action, createDraftStream without a streamId:
   db.stream.create with the products nested, one statement *)
CreateDraftStream(r, shop, productIds) ==
  LET in == [shop |-> shop, id |-> 0]
      s == IF shop = "shopA" THEN "s1" ELSE "s2"
      rows == [i \in 1..Len(productIds) |-> [productId |-> productIds[i], position |-> i - 1]]
  IN
  /\ ~Busy(r)
  /\ IF productIds = <<>> THEN LineupError("createDraftStream", in, "none", "empty")
     ELSE /\ s \notin DOMAIN streams
          /\ Len(products) + Len(rows) <= MaxRows
          /\ streams' = [x \in DOMAIN streams \cup {s} |->
                           IF x = s THEN NewStream(shop, "DRAFT") ELSE streams[x]]
          /\ products' = ApplyWrite(products, CreateMany(rows, s))
          /\ resp' = Response("merchant", "createDraftStream", <<>>, 200, "none", s, <<>>, 0,
                              <<>>)
          /\ UNCHANGED <<flow, cache, events, now, muxNext, clipRuns, req,
                         streamClips, clipAssets>>

(* the k-th write of the stage in progress reaches its table; a transaction lands
   whole or not at all; a write that throws ends the handler with an error *)
LandRows(r, k) ==
  LET q == req[r]
      st == Head(q.writes)
      w == st.ws[k]
      rest == SelectSeq([i \in 1..Len(st.ws) |-> [i |-> i, w |-> st.ws[i]]],
                        LAMBDA x : x.i # k)
      left == [i \in 1..Len(rest) |-> rest[i].w]
      broken == IF st.mode = "tx" THEN AnyFails(products, st.ws) ELSE Fails(products, w)
      failed == q.failed \/ broken
      after == IF st.mode = "tx" \/ left = <<>>
               THEN (IF failed THEN <<>> ELSE Tail(q.writes))
               ELSE <<All(left)>> \o Tail(q.writes)
  IN
  /\ Busy(r)
  /\ q.pc = "lineup"
  /\ q.writes # <<>>
  /\ k \in 1..Len(st.ws)
  /\ st.mode = "tx" => k = 1
  /\ products' = IF broken \/ w.k = "stream" THEN products
                 ELSE IF st.mode = "tx" THEN ApplyAll(products, st.ws)
                 ELSE ApplyWrite(products, w)
  /\ streams' = IF st.mode = "all" /\ w.k = "stream"
                THEN [streams EXCEPT ![w.stream.id].status = w.stream.status]
                ELSE streams
  /\ req' = [req EXCEPT ![r].writes = after, ![r].failed = failed]
  /\ resp' = NoResp
  /\ UNCHANGED <<flow, cache, events, now, muxNext, clipRuns, streamClips, clipAssets>>

(* the lineup handler returns: a redirect, or the error of the write that threw *)
FinishLineup(r) ==
  LET q == req[r] IN
  /\ Busy(r)
  /\ q.pc = "lineup"
  /\ q.writes = <<>>
  /\ resp' = Response("merchant", q.op, <<>>, 200, IF q.failed THEN "failed" ELSE "none",
                      q.sid, <<>>, 0, <<>>)
  /\ req' = [req EXCEPT ![r] = IdleReq]
  /\ UNCHANGED <<flow, streams, cache, events, now, muxNext, clipRuns, catalog>>

(* Lineup inputs *)
ProductLists == UNION {[1..n -> ProductIds] : n \in 0..MaxList}
Items ==
  {Item(FALSE, sp, "none", pos) : sp \in 1..MaxRows, pos \in 0..(MaxList - 1)}
    \cup {Item(TRUE, 0, p, pos) : p \in ProductIds, pos \in 0..(MaxList - 1)}
Orders == {[given |-> TRUE, items |-> its] : its \in UNION {[1..n -> Items] : n \in 0..1}}
NoOrder == [given |-> FALSE, items |-> <<>>]
Removals == {S \in SUBSET (1..MaxRows) : Cardinality(S) <= 1}

(* two merchants create their lineups; shopA then edits, naming any stream and
   any row, one request at a time *)
NextLineup ==
  \/ \E shop \in Shops, ids \in ProductLists : CreateDraftStream("r1", shop, ids)
  \/ \E s \in LineupStreams, ids \in ProductLists : ReplaceLineup("r1", "shopA", s, ids)
  \/ \E s \in LineupStreams, ids \in ProductLists : AddProducts("r1", "shopA", s, ids)
  \/ \E s \in LineupStreams, id \in 1..MaxRows : RemoveProduct("r1", "shopA", s, id)
  \/ \E s \in LineupStreams, id \in 1..MaxRows, dir \in {"up", "down"} :
       ReorderProduct("r1", "shopA", s, id, dir)
  \/ \E s \in LineupStreams, removed \in Removals :
       \/ \E order \in Orders :
            UpdateLineup("r1", "shopA", s, "Sale", NoTime, removed, order, <<>>)
       \/ \E ids \in ProductLists :
            UpdateLineup("r1", "shopA", s, "Sale", NoTime, removed, NoOrder, ids)
  \/ \E s \in LineupStreams : UpdateLineup("r1", "shopA", s, " ", NoTime, {}, NoOrder, <<>>)
  \/ \E k \in 1..MaxRows : LandRows("r1", k)
  \/ FinishLineup("r1")
SpecLineup == Init /\ [][NextLineup]_vars

(* the same two merchants with the actions that lengthen and shorten a lineup:
   shopA adds, removes (leaving a gap through updateStream's removedProducts, or
   none through removeProduct) and never sends a lineupOrder *)
NextRemove ==
  \/ \E shop \in Shops, ids \in ProductLists : CreateDraftStream("r1", shop, ids)
  \/ \E s \in LineupStreams, ids \in ProductLists : AddProducts("r1", "shopA", s, ids)
  \/ \E s \in LineupStreams, id \in 1..MaxRows : RemoveProduct("r1", "shopA", s, id)
  \/ \E s \in LineupStreams, removed \in Removals :
       UpdateLineup("r1", "shopA", s, "Sale", NoTime, removed, NoOrder, <<>>)
  \/ \E k \in 1..MaxRows : LandRows("r1", k)
  \/ FinishLineup("r1")
SpecRemove == Init /\ [][NextRemove]_vars

----------------------------------------------------------------------------
(* the positions of a stream's N rows are 0..N-1, each used once *)
Dense(rows, s) ==
  {rows[i].position : i \in LineupOf(rows, s)} = 0..(Cardinality(LineupOf(rows, s)) - 1)

(* a lineup request whose writes have all landed and that is about to answer *)
Landed(r, op) ==
  Busy(r) /\ req[r].pc = "lineup" /\ req[r].op = op /\ req[r].writes = <<>> /\ ~req[r].failed

(* C13: when an addProducts, removeProduct, reorderProduct, updateStream or
   createDraftStream request on a stream has completed, the positions of that
   stream's N StreamProducts are exactly 0..N-1. *)
C13_PositionsDense ==
  /\ \A r \in DOMAIN req :
       \A op \in {"addProducts", "removeProduct", "reorderProduct", "updateStream",
                  "createDraftStream"} :
         Landed(r, op) => Dense(products, req[r].sid)
  /\ (resp.kind = "merchant" /\ resp.op = "createDraftStream" /\ resp.err = "none")
       => Dense(products, resp.sid)

(* C14: removeProduct naming a product of the stream's lineup deletes exactly that
   row and leaves the others at positions 0..N-2 in the order their positions had
   before; rows of other streams are untouched. *)
C14_RemoveReindexes ==
  \A r \in DOMAIN req :
    (Landed(r, "removeProduct")
       /\ req[r].in.id \in LineupOf(req[r].pre.products, req[r].sid))
      => LET old == req[r].pre.products
             before == LineupOf(old, req[r].sid)
             rest == before \ {req[r].in.id}
         IN /\ LineupOf(products, req[r].sid) = rest
            /\ Dense(products, req[r].sid)
            /\ \A i \in rest : products[i].productId = old[i].productId
            /\ \A i, j \in rest :
                 old[i].position < old[j].position
                   => products[i].position < products[j].position
            /\ \A i \in RowIds(old) \ before : products[i] = old[i]

C14_Witness ==
  \E r \in DOMAIN req :
    /\ Landed(r, "removeProduct")
    /\ LET old == req[r].pre.products
           before == LineupOf(old, req[r].sid)
       IN /\ Cardinality(before) = 3
          /\ {old[i].position : i \in before} = {0, 1, 2}
          /\ req[r].in.id \in before
          /\ old[req[r].in.id].position = 1
          /\ Cardinality(LineupOf(products, req[r].sid)) = 2

(* C15: a request authenticated for one shop changes no StreamProduct of a stream
   that belongs to another shop, whatever row ids its form data names. *)
C15_TenantScoped ==
  \A r \in DOMAIN req :
    (Busy(r) /\ req[r].pc = "lineup")
      => \A i \in RowIds(req[r].pre.products) :
           req[r].pre.streams[req[r].pre.products[i].stream].shop # req[r].in.shop
             => products[i] = req[r].pre.products[i]

----------------------------------------------------------------------------
(* Clips: api.clips.create.tsx and lib/clipping.server.ts *)
MaxClips == 2

(* form fields are strings: sequences of characters, <<>> when empty or absent *)
DigitValue == ("0" :> 0) @@ ("1" :> 1) @@ ("2" :> 2)
NaN == [nan |-> TRUE, v |-> 0]
Num(n) == [nan |-> FALSE, v |-> n]

RECURSIVE TrimLeft(_)
TrimLeft(str) ==
  IF str # <<>> /\ Head(str) = " " THEN TrimLeft(Tail(str)) ELSE str

RECURSIVE LeadingDigits(_)
LeadingDigits(str) ==
  IF str = <<>> \/ Head(str) \notin DOMAIN DigitValue THEN <<>>
  ELSE <<Head(str)>> \o LeadingDigits(Tail(str))

RECURSIVE Decimal(_)
Decimal(ds) ==
  IF ds = <<>> THEN 0
  ELSE 10 * Decimal(SubSeq(ds, 1, Len(ds) - 1)) + DigitValue[ds[Len(ds)]]

(* parseInt(str, 10): leading blanks are skipped, one sign is taken, then the
   longest run of digits; what follows is ignored; no digit gives NaN *)
parseInt(str) ==
  LET t == TrimLeft(str)
      signed == t # <<>> /\ Head(t) \in {"-", "+"}
      ds == LeadingDigits(IF signed THEN Tail(t) ELSE t)
  IN IF ds = <<>> THEN NaN
     ELSE Num(IF signed /\ Head(t) = "-" THEN 0 - Decimal(ds) ELSE Decimal(ds))

Max(a, b) == IF a >= b THEN a ELSE b

(* db.streamClip.create data *)
Clip(s, productId, muxClipId, startTime, endTime) ==
  [stream |-> s, productId |-> productId, muxClipId |-> muxClipId,
   startTime |-> startTime, endTime |-> endTime]

PreClips == [streamClips |-> streamClips, clipAssets |-> clipAssets]

(* mutant: the timing check does not compare endTime with startTime *)
CreateClipNoOrderCheck(r, shop, streamId, startTimeStr, endTimeStr, muxOk) ==
  LET in == [shop |-> shop, streamId |-> streamId, startTime |-> startTimeStr,
             endTime |-> endTimeStr]
      startTime == parseInt(startTimeStr)
      endTime == parseInt(endTimeStr)
      answer(code, err) ==
        Response("merchant", "createClip", in, code, err, streamId, <<>>, 0, PreClips)
  IN
  /\ ~Busy(r)
  /\ IF streamId = "" \/ startTimeStr = <<>> \/ endTimeStr = <<>>
     THEN Reply(answer(400, "missing"))
     ELSE IF startTime.nan \/ endTime.nan \/ startTime.v < 0
     THEN Reply(answer(400, "timing"))
     ELSE IF ~FindByShop(streamId, shop) THEN Reply(answer(404, "notfound"))
     ELSE IF streams[streamId].muxAssetId = NoId THEN Reply(answer(400, "noasset"))
     ELSE IF streams[streamId].startedAt = NoTime THEN Reply(answer(400, "nostart"))
     ELSE IF ~muxOk THEN Reply(answer(500, "mux"))
     ELSE /\ Len(streamClips) < MaxClips
          /\ clipAssets' = clipAssets + 1
          /\ streamClips' = Append(streamClips,
                                   Clip(streamId, "none", clipAssets + 1, startTime.v, endTime.v))
          /\ resp' = answer(200, "none")
          /\ UNCHANGED <<flow, streams, cache, events, now, muxNext, clipRuns, req, products>>

(* api.clips.create.tsx action, POST with a shop session; muxOk is whether
   mux.video.assets.create returns or throws; requests are taken one at a time *)
CreateClip(r, shop, streamId, startTimeStr, endTimeStr, muxOk) ==
  LET in == [shop |-> shop, streamId |-> streamId, startTime |-> startTimeStr,
             endTime |-> endTimeStr]
      startTime == parseInt(startTimeStr)
      endTime == parseInt(endTimeStr)
      answer(code, err) ==
        Response("merchant", "createClip", in, code, err, streamId, <<>>, 0, PreClips)
  IN
  /\ ~Busy(r)
  /\ IF streamId = "" \/ startTimeStr = <<>> \/ endTimeStr = <<>>
     THEN Reply(answer(400, "missing"))
     ELSE IF startTime.nan \/ endTime.nan \/ startTime.v < 0 \/ endTime.v <= startTime.v
     THEN Reply(answer(400, "timing"))
     ELSE IF ~FindByShop(streamId, shop) THEN Reply(answer(404, "notfound"))
     ELSE IF streams[streamId].muxAssetId = NoId THEN Reply(answer(400, "noasset"))
     ELSE IF streams[streamId].startedAt = NoTime THEN Reply(answer(400, "nostart"))
     ELSE IF ~muxOk THEN Reply(answer(500, "mux"))
     ELSE /\ Len(streamClips) < MaxClips
          /\ clipAssets' = clipAssets + 1
          /\ streamClips' = Append(streamClips,
                                   Clip(streamId, "none", clipAssets + 1, startTime.v, endTime.v))
          /\ resp' = answer(200, "none")
          /\ UNCHANGED <<flow, streams, cache, events, now, muxNext, clipRuns, req, products>>

(* clipping.server.ts: the window of an automatic clip, in seconds from the start *)
ClipWindow(startedAt, featuredAt) ==
  LET timeSinceStart == (featuredAt - startedAt) \div 1000 IN
  [startTime |-> Max(0, timeSinceStart - 30), endTime |-> timeSinceStart + 120]

(* include: { products: { where: { featuredAt: { not: null } },
   orderBy: { featuredAt: "asc" } } } *)
FeaturedProducts(s) ==
  LET ids == {i \in LineupOf(products, s) : products[i].featuredAt # NoTime}
      order == CHOOSE f \in [1..Cardinality(ids) -> ids] :
                 /\ {f[k] : k \in DOMAIN f} = ids
                 /\ \A j, k \in DOMAIN f :
                      j < k => products[f[j]].featuredAt <= products[f[k]].featuredAt
  IN [k \in DOMAIN order |-> products[order[k]]]

(* createAutoClipsForFeaturedProducts(streamId): the read at the top and the
   early returns *)
StartAutoClips(r, s) ==
  LET skip == \/ s \notin DOMAIN streams
              \/ streams[s].muxAssetId = NoId
              \/ streams[s].startedAt = NoTime
  IN
  /\ ~Busy(r)
  /\ req' = [req EXCEPT ![r] =
               [pc |-> "clips", sid |-> s, step |-> "find",
                startedAt |-> IF skip THEN NoTime ELSE streams[s].startedAt,
                todo |-> IF skip THEN <<>> ELSE FeaturedProducts(s)]]
  /\ resp' = NoResp
  /\ UNCHANGED <<flow, streams, cache, events, now, muxNext, clipRuns, catalog>>

(* db.streamClip.findFirst({ where: { streamId, productId } }) *)
ClipFind(r) ==
  LET q == req[r]
      existingClip == \E i \in DOMAIN streamClips :
                        /\ streamClips[i].stream = q.sid
                        /\ streamClips[i].productId = Head(q.todo).productId
  IN
  /\ Busy(r)
  /\ q.pc = "clips"
  /\ q.step = "find"
  /\ q.todo # <<>>
  /\ req' = IF existingClip THEN [req EXCEPT ![r].todo = Tail(q.todo)]
                            ELSE [req EXCEPT ![r].step = "mux"]
  /\ resp' = NoResp
  /\ UNCHANGED <<flow, streams, cache, events, now, muxNext, clipRuns, catalog>>

(* mux.video.assets.create for the window; a throw is caught per product *)
ClipMux(r, muxOk) ==
  LET q == req[r] IN
  /\ Busy(r)
  /\ q.pc = "clips"
  /\ q.step = "mux"
  /\ muxOk => Len(streamClips) < MaxClips
  /\ clipAssets' = IF muxOk THEN clipAssets + 1 ELSE clipAssets
  /\ req' = IF muxOk THEN [req EXCEPT ![r].step = "store"]
                     ELSE [req EXCEPT ![r].step = "find", ![r].todo = Tail(q.todo)]
  /\ resp' = NoResp
  /\ UNCHANGED <<flow, streams, cache, events, now, muxNext, clipRuns, products,
                 streamClips>>

(* db.streamClip.create for the product *)
ClipStore(r) ==
  LET q == req[r]
      window == ClipWindow(q.startedAt, Head(q.todo).featuredAt)
  IN
  /\ Busy(r)
  /\ q.pc = "clips"
  /\ q.step = "store"
  /\ streamClips' = Append(streamClips,
                           Clip(q.sid, Head(q.todo).productId, clipAssets,
                                window.startTime, window.endTime))
  /\ req' = [req EXCEPT ![r].step = "find", ![r].todo = Tail(q.todo)]
  /\ resp' = NoResp
  /\ UNCHANGED <<flow, streams, cache, events, now, muxNext, clipRuns, products,
                 clipAssets>>

(* the loop is over *)
FinishAutoClips(r) ==
  /\ Busy(r)
  /\ req[r].pc = "clips"
  /\ req[r].todo = <<>>
  /\ req' = [req EXCEPT ![r] = IdleReq]
  /\ resp' = NoResp
  /\ UNCHANGED <<flow, streams, cache, events, now, muxNext, clipRuns, catalog>>

(* Clip inputs *)
TimeStrings == {<<>>, <<"x">>, <<"-", "1">>, <<" ", "0">>, <<"1", "x">>}
ClipStreamIds == {"", "s1", "s2"}
(* milliseconds: a stream started at 1000, or started again at 200000 *)
StartTimes == {NoTime, 1000, 200000}
FeatureTimes == {NoTime, 1000, 31500, 80000, 199500}

(* a recorded stream of shopA with one product, which may have been featured *)
InitClips ==
  /\ flow = "strict"
  /\ \E startedAt \in StartTimes, asset \in {NoId, 21} :
       streams = [s \in {"s1"} |->
                    Update(NewStream("shopA", "ENDED"),
                           [startedAt |-> startedAt, muxStreamId |-> 1,
                            muxPlaybackId |-> PlaybackOf(1), muxAssetId |-> asset])]
  /\ cache = [s \in StreamIds |-> "ended"]
  /\ events = <<>>
  /\ now = 1
  /\ muxNext = 1
  /\ clipRuns = [s \in StreamIds |-> 0]
  /\ req = [r \in {"r1", "r2"} |-> IdleReq]
  /\ resp = NoResp
  /\ \E featuredAt \in FeatureTimes :
       products = <<[Row("s1", "p1", 0) EXCEPT !.featuredAt = featuredAt]>>
  /\ streamClips = <<>>
  /\ clipAssets = 0

NextClips ==
  \/ \E shop \in Shops, s \in ClipStreamIds, startTime, endTime \in TimeStrings,
        muxOk \in BOOLEAN :
       CreateClip("r1", shop, s, startTime, endTime, muxOk)
  \/ \E s \in {"s1", "s2"} : StartAutoClips("r1", s)
  \/ ClipFind("r1")
  \/ \E muxOk \in BOOLEAN : ClipMux("r1", muxOk)
  \/ ClipStore("r1")
  \/ FinishAutoClips("r1")
SpecClips == InitClips /\ [][NextClips]_vars

(* C16: a clip request whose startTime or endTime is not a number, whose startTime
   is negative or whose endTime is not after startTime is answered 400, and no Mux
   asset and no StreamClip is created, whichever stream and shop it names. *)
C16_BadTimingRejected ==
  (resp.kind = "merchant" /\ resp.op = "createClip")
    => LET startTime == parseInt(resp.in.startTime)
           endTime == parseInt(resp.in.endTime)
       IN (startTime.nan \/ endTime.nan \/ startTime.v < 0 \/ endTime.v <= startTime.v)
            => /\ resp.code = 400
               /\ streamClips = resp.pre.streamClips
               /\ clipAssets = resp.pre.clipAssets

C16_Witness ==
  /\ resp.kind = "merchant" /\ resp.op = "createClip"
  /\ resp.in.shop = "shopA" /\ resp.in.streamId = "s1"
  /\ streams["s1"].muxAssetId # NoId /\ streams["s1"].startedAt # NoTime
  /\ resp.in.startTime = <<"1", "x">> /\ resp.in.endTime = <<" ", "0">>
  /\ resp.code = 400

(* C17: every stored StreamClip, manual or automatic, has endTime > startTime >= 0. *)
C17_ClipWindowValid ==
  \A i \in DOMAIN streamClips :
    streamClips[i].startTime >= 0 /\ streamClips[i].endTime > streamClips[i].startTime

----------------------------------------------------------------------------
(* Playback URL: lib/video-conversion.server.ts *)
NoUrl == <<>>      \* null for URLs
ShopifyUrl(n) == <<"https://cdn.shopify.com/videos/", n, ".m3u8">>
MuxUrl(id) == <<"https://stream.mux.com/", id, ".m3u8">>

(* mutant: the live playback id is preferred to the recorded asset's *)
getVideoPlaybackUrlLiveFirst(stream) ==
  IF stream.shopifyVideoUrl # NoUrl THEN stream.shopifyVideoUrl
  ELSE IF stream.muxPlaybackId # NoId THEN MuxUrl(stream.muxPlaybackId)
  ELSE IF stream.muxAssetPlaybackId # NoId THEN MuxUrl(stream.muxAssetPlaybackId)
  ELSE NoUrl

(* getVideoPlaybackUrl(stream) *)
getVideoPlaybackUrl(stream) ==
  IF stream.shopifyVideoUrl # NoUrl THEN stream.shopifyVideoUrl
  ELSE IF stream.muxAssetPlaybackId # NoId THEN MuxUrl(stream.muxAssetPlaybackId)
  ELSE IF stream.muxPlaybackId # NoId THEN MuxUrl(stream.muxPlaybackId)
  ELSE NoUrl

(* a caller asks for the URL of a stored stream *)
PlaybackUrl(s) ==
  /\ s \in DOMAIN streams
  /\ resp' = [kind |-> "call", op |-> "getVideoPlaybackUrl", in |-> streams[s],
              out |-> getVideoPlaybackUrl(streams[s])]
  /\ UNCHANGED <<flow, streams, cache, events, now, muxNext, clipRuns, req, catalog>>

(* Stream rows after the migration that adds shopifyVideoUrl: every combination of
   the three sources, on a live or an ended stream *)
InitPlayback ==
  /\ flow = "strict"
  /\ \E status \in {"LIVE", "ENDED"}, url \in {NoUrl, ShopifyUrl(1), ShopifyUrl(2)},
        assetPb \in {NoId, 31, 32}, pb \in {NoId, PlaybackOf(1), PlaybackOf(2)} :
       streams = [s \in {"s1"} |->
                    Update(NewStream("shopA", status),
                           [startedAt |-> 1, muxStreamId |-> 1, muxPlaybackId |-> pb,
                            muxAssetPlaybackId |-> assetPb])
                      @@ [shopifyVideoUrl |-> url]]
  /\ cache = [s \in StreamIds |-> "none"]
  /\ events = <<>>
  /\ now = 1
  /\ muxNext = 1
  /\ clipRuns = [s \in StreamIds |-> 0]
  /\ req = [r \in {"r1", "r2"} |-> IdleReq]
  /\ resp = NoResp
  /\ products = <<>>
  /\ streamClips = <<>>
  /\ clipAssets = 0

NextPlayback == \E s \in StreamIds : PlaybackUrl(s)
SpecPlayback == InitPlayback /\ [][NextPlayback]_vars

(* C18: getVideoPlaybackUrl returns the shopifyVideoUrl if it is set; otherwise the
   Mux URL of muxAssetPlaybackId if that is set; otherwise the Mux URL of
   muxPlaybackId if that is set; otherwise null. *)
C18_PlaybackPriority ==
  (resp.kind = "call" /\ resp.op = "getVideoPlaybackUrl")
    => LET stream == resp.in
           migrated == stream.shopifyVideoUrl # NoUrl
           recorded == stream.muxAssetPlaybackId # NoId
           live == stream.muxPlaybackId # NoId
       IN /\ migrated => resp.out = stream.shopifyVideoUrl
          /\ (~migrated /\ recorded) => resp.out = MuxUrl(stream.muxAssetPlaybackId)
          /\ (~migrated /\ ~recorded /\ live) => resp.out = MuxUrl(stream.muxPlaybackId)
          /\ (~migrated /\ ~recorded /\ ~live) => resp.out = NoUrl

C18_Witness ==
  /\ resp.kind = "call" /\ resp.op = "getVideoPlaybackUrl"
  /\ resp.in.shopifyVideoUrl = NoUrl
  /\ resp.in.muxAssetPlaybackId = 32
  /\ resp.in.muxPlaybackId = PlaybackOf(1)
  /\ resp.out = MuxUrl(32)

----------------------------------------------------------------------------
(* C21: a verified webhook event of a type other than encoder-active, encoder-idle
   or asset-ready is answered 200 and leaves every Stream, every cache entry and
   the event log as they were; no handler is left in flight for it. *)
C21_UnknownEventIgnored ==
  /\ (resp.kind = "webhook" /\ resp.op # "unverified"
        /\ resp.in.ev \notin {"active", "idle", "asset"})
       => (resp.code = 200 /\ resp.appended = <<>> /\ Unchanged(resp))
  /\ \A r \in DOMAIN req :
       (Busy(r) /\ req[r].pc = "run" /\ req[r].kind = "webhook")
         => req[r].in.ev \in {"active", "idle", "asset"}

C21_Witness ==
  /\ resp.kind = "webhook" /\ resp.op = "other" /\ resp.code = 200
  /\ resp.in.sig = "good" /\ resp.in.secret
  /\ \E s \in DOMAIN streams :
       streams[s].muxStreamId = resp.in.sess /\ streams[s].status = "LIVE"
                                             /\ cache[s] = "live"

----------------------------------------------------------------------------
(* encoder events on a stream the merchant has prepared and started, with writes
   that may fail; requests are handled one at a time *)
NextFail ==
  \/ Tick
  \/ CreateDraft("r1", "shopA")
  \/ \E s \in StreamIds : PrepareStream("r1", "shopA", s, TRUE)
  \/ \E s \in StreamIds : StartStream("r1", "shopA", s)
  \/ EncoderEvents("r1", {1}, {NoId})
  \/ \E w \in {"cache", "event", "record"} : Land("r1", w)
  \/ \E w \in {"cache", "event", "record"} : WriteFails("r1", w)
  \/ Finish("r1")
SpecFail == Init /\ [][NextFail]_vars

(* the stores while request q is the only one in flight: each write that has
   reached its store shows, nothing else has changed *)
OnlyDone(q) ==
  /\ cache = IF "cache" \in q.done THEN [q.pre.cache EXCEPT ![q.sid] = q.cacheVal]
             ELSE q.pre.cache
  /\ streams = IF "record" \in q.done
               THEN [q.pre.streams EXCEPT ![q.sid] = Update(@, q.upd)]
               ELSE q.pre.streams
  /\ events = IF "event" \in q.done
              THEN Append(q.pre.events, [stream |-> q.sid, type |-> q.evType])
              ELSE q.pre.events

(* C22: when a write of an encoder-idle or encoder-active batch fails, the handler
   answers 500; the writes of the batch that reached their store keep their effect
   (no rollback) and the failed write is never issued again (no retry). *)
C22_PartialFailureKept ==
  /\ (resp.kind = "webhook" /\ resp.err = "failed")
       => (resp.code = 500 /\ resp.op \in {"active", "idle"})
  /\ \A r \in DOMAIN req :
       (Busy(r) /\ req[r].pc = "run" /\ req[r].kind = "webhook")
         => /\ OnlyDone(req[r])
            /\ req[r].lost \cap req[r].done = {}
            /\ \A i \in 1..Len(req[r].stages) : req[r].lost \cap req[r].stages[i] = {}

(* the idle batch has lost its record update: the cache says "ended", the Stream
   is still LIVE *)
C22_Witness ==
  \E r \in DOMAIN req :
    /\ Busy(r) /\ req[r].pc = "run" /\ req[r].op = "idle"
    /\ req[r].stages = <<>>
    /\ req[r].lost = {"record"}
    /\ cache[req[r].sid] = "ended"
    /\ streams[req[r].sid].status = "LIVE"
    /\ Count(events, [stream |-> req[r].sid, type |-> "STREAM_ENDED"]) = 1

(* the idle batch has lost its audit-log insert: status ENDED, no STREAM_ENDED *)
EndedWithoutEvent ==
  \E s \in DOMAIN streams :
    /\ streams[s].status = "ENDED"
    /\ Count(events, [stream |-> s, type |-> "STREAM_ENDED"]) = 0
    /\ \A r \in DOMAIN req : ~Busy(r)

----------------------------------------------------------------------------
(* a stream the merchant has created and prepared; from here on only the encoder
   acts on it *)
InitEvents ==
  /\ flow \in Flows
  /\ streams = [s \in StreamIds |->
                  Update(NewStream("shopA", "DRAFT"),
                         [muxStreamId |-> 1, muxPlaybackId |-> PlaybackOf(1)])]
  /\ cache = [s \in StreamIds |-> "none"]
  /\ events = <<>>
  /\ now = 1
  /\ muxNext = 1
  /\ clipRuns = [s \in StreamIds |-> 0]
  /\ req = [r \in {"r1", "r2"} |-> IdleReq]
  /\ resp = NoResp
  /\ products = <<>>
  /\ streamClips = <<>>
  /\ clipAssets = 0

(* encoder events delivered while an earlier delivery is still being handled *)
NextEvents ==
  \/ Tick
  \/ \E r \in {"r1", "r2"} :
       \/ EncoderEvents(r, {1}, {NoId})
       \/ \E w \in {"cache", "event", "record"} : Land(r, w)
       \/ Finish(r)
SpecEvents == InitEvents /\ [][NextEvents]_vars

(* encoder events delivered one after the other *)
NextEventsSeq ==
  \/ Tick
  \/ EncoderEvents("r1", {1}, {NoId})
  \/ \E w \in {"cache", "event", "record"} : Land("r1", w)
  \/ Finish("r1")
SpecEventsSeq == InitEvents /\ [][NextEventsSeq]_vars

(* the cache entry and the status of stream s tell the same story *)
Agree(s) ==
  /\ cache[s] = "ended" <=> streams[s].status = "ENDED"
  /\ flow = "loose" => (cache[s] = "live" <=> streams[s].status = "LIVE")

(* C23: once every delivered encoder-active / encoder-idle event has been fully
   handled, the cache and the Stream agree: "ended" iff ENDED, and in the looser
   version "live" iff LIVE. *)
C23_CacheRecordAgree ==
  (\A r \in DOMAIN req : ~Busy(r)) => \A s \in DOMAIN streams : Agree(s)

(* C29: in the looser version, after each of a series of non-overlapping encoder
   events the cache is "live" exactly when the status is LIVE and "ended" exactly
   when it is ENDED. *)
C29_LooseSequentialAgree ==
  (flow = "loose" /\ resp.kind = "webhook" /\ resp.op \in {"active", "idle"}
     /\ resp.code = 200)
    => /\ cache[resp.sid] = "live" <=> streams[resp.sid].status = "LIVE"
       /\ cache[resp.sid] = "ended" <=> streams[resp.sid].status = "ENDED"

C29_Witness ==
  /\ flow = "loose" /\ resp.kind = "webhook" /\ resp.op = "active" /\ resp.code = 200
  /\ resp.pre.streams[resp.sid].status = "ENDED"
  /\ resp.pre.cache[resp.sid] = "ended"
  /\ streams[resp.sid].status = "LIVE"
  /\ cache[resp.sid] = "live"

----------------------------------------------------------------------------
(* shopA's lineup requests for its own stream, a second one starting while the
   first is between its read and its writes *)
NextLineupRace ==
  \/ \E ids \in ProductLists : CreateDraftStream("r1", "shopA", ids)
  \/ \E r \in {"r1", "r2"} :
       \/ \E ids \in ProductLists : AddProducts(r, "shopA", "s1", ids)
       \/ \E id \in 1..MaxRows : RemoveProduct(r, "shopA", "s1", id)
       \/ \E k \in 1..MaxRows : LandRows(r, k)
       \/ FinishLineup(r)
SpecLineupRace == Init /\ [][NextLineupRace]_vars

(* C24: once the lineup requests for a stream have run to their end, no two of its
   StreamProducts have the same position, also when the requests overlapped. *)
C24_PositionsUnique ==
  (\A r \in DOMAIN req : ~Busy(r))
    => \A s \in LineupStreams :
         \A i, j \in LineupOf(products, s) :
           i # j => products[i].position # products[j].position

----------------------------------------------------------------------------
(* Form validation: the forms of updateStream, continue, saveDraft and createStream *)
FormOps == {"updateStream", "continue", "saveDraft", "createStream"}
AllForms == {[title |-> title, sched |-> sched] :
               title \in {"", " ", "Sale"}, sched \in {NoTime} \cup 1..(MaxTime + 1)}

(* a fresh shop, or a shop with one draft and one product in its lineup; here the
   Stream rows carry their title and scheduledAt columns *)
InitForms ==
  /\ flow = "strict"
  /\ \/ streams = <<>> /\ products = <<>>
     \/ /\ streams = [s \in StreamIds |->
                        NewStream("shopA", "DRAFT")
                          @@ [title |-> "Old", scheduledAt |-> NoTime]]
        /\ products = <<Row("s1", "p1", 0)>>
  /\ cache = [s \in StreamIds |-> "none"]
  /\ events = <<>>
  /\ now = 1
  /\ muxNext = 0
  /\ clipRuns = [s \in StreamIds |-> 0]
  /\ req = [r \in {"r1", "r2"} |-> IdleReq]
  /\ resp = NoResp
  /\ streamClips = <<>>
  /\ clipAssets = 0

NextForms ==
  \/ Tick
  \/ \E f \in AllForms : CreateStream("r1", "shopA", f.title, f.sched)
  \/ \E s \in StreamIds, f \in AllForms : UpdateStream("r1", "shopA", s, f.title, f.sched)
  \/ \E s \in StreamIds, f \in AllForms : SettingsContinue("r1", "shopA", s, f.title, f.sched)
  \/ \E s \in StreamIds, f \in AllForms : SaveDraft("r1", "shopA", s, f.title, f.sched)
  \/ \E s \in StreamIds, f \in AllForms, removed \in Removals :
       UpdateLineup("r1", "shopA", s, f.title, f.sched, removed, NoOrder, <<>>)
  \/ Land("r1", "record")
  \/ Finish("r1")
  \/ \E k \in 1..MaxRows : LandRows("r1", k)
  \/ FinishLineup("r1")
SpecForms == InitForms /\ [][NextForms]_vars

BadTitle(in) == in.title = "" \/ Trim(in.title) = ""
BadTime(in) == in.sched # NoTime /\ in.sched <= now

(* what each form handler validates: the title always, the scheduled time in all
   but saveDraft *)
Validated(op, in) == BadTitle(in) \/ (op # "saveDraft" /\ BadTime(in))
AnyInvalid(op, in) == BadTitle(in) \/ BadTime(in)

(* invalid under one of the two readings: every check for every action ("any"), or
   the checks each action makes ("validated") *)
Invalid(reading, op, in) ==
  IF reading = "any" THEN AnyInvalid(op, in) ELSE Validated(op, in)

(* a step of a form handler given a form that is invalid: it starts no write, it
   answers with an error, and the Stream and StreamProduct rows stay as they are *)
RejectsInvalid(reading) ==
  /\ \A r \in DOMAIN req :
       (req[r].pc = "idle" /\ req'[r].pc # "idle" /\ req'[r].op \in FormOps)
         => ~Invalid(reading, req'[r].op, req'[r].in)
  /\ (req' = req /\ resp'.kind = "merchant" /\ resp'.op \in FormOps
        /\ resp'.err # "notfound" /\ Invalid(reading, resp'.op, resp'.in))
       => (resp'.err \in {"title", "schedule"} /\ streams' = streams
             /\ products' = products)

(* C25 as stated: updateStream, continue, saveDraft and createStream given an empty
   or blank title, or a scheduled time that is not in the future, return an error
   and change no Stream and no StreamProduct. *)
C25_InvalidFormRejected == [][RejectsInvalid("any")]_vars

(* C25, amended: the same for an empty or blank title in all four actions, and for
   a scheduled time that is not in the future in updateStream, continue and
   createStream; saveDraft does not read the schedule. *)
C25_ValidatedFormRejected == [][RejectsInvalid("validated")]_vars

C25_Witness ==
  /\ resp.kind = "merchant" /\ resp.op = "updateStream" /\ resp.err = "schedule"
  /\ resp.in.title = "Sale" /\ resp.in.sched = now /\ now > 1
  /\ "s1" \in DOMAIN streams /\ streams["s1"].title = "Old"
  /\ LineupOf(products, "s1") # {}

----------------------------------------------------------------------------
(* C28: a successful merchant endStream changes only the status and endedAt of its
   Stream and appends one STREAM_ENDED; every cache entry stays as it was, so the
   entry of a broadcasting stream still reads "live". *)
C28_EndStreamFrame ==
  (resp.kind = "merchant" /\ resp.op = "endStream" /\ resp.err = "none")
    => LET s == resp.sid
           old == resp.pre.streams[s]
       IN /\ streams[s].status = "ENDED"
          /\ streams[s].endedAt # NoTime
          /\ streams[s] = Update(old, [status |-> "ENDED", endedAt |-> streams[s].endedAt])
          /\ \A x \in DOMAIN streams \ {s} : streams[x] = resp.pre.streams[x]
          /\ events = Append(resp.pre.events, [stream |-> s, type |-> "STREAM_ENDED"])
          /\ cache = resp.pre.cache

C28_Witness ==
  /\ resp.kind = "merchant" /\ resp.op = "endStream" /\ resp.err = "none"
  /\ resp.pre.streams[resp.sid].status = "LIVE"
  /\ resp.pre.cache[resp.sid] = "live"
  /\ streams[resp.sid].status = "ENDED"
  /\ cache[resp.sid] = "live"

----------------------------------------------------------------------------
(* The live control page (app.streams.$id.live.tsx, LiveStreamingControl) *)

(* setInterval(..., 5000): seconds between two polls *)
PollSeconds == 5

(* loader: throws 404 unless the shop owns the stream, 400 unless it is LIVE *)
LiveLoaderOk(shop, s) == FindByShop(s, shop) /\ streams[s].status = "LIVE"

(* loader: the data it returns; a failing redis read falls back to the status *)
LiveLoader(s, redisOk) ==
  [muxPlaybackId |-> streams[s].muxPlaybackId,
   isStreamLive |-> IF redisOk THEN cache[s] = "live" ELSE streams[s].status = "LIVE"]

(* mutant: the effect polls only while the playback id is missing *)
PollEffectPlaybackOnly(data) == data.muxPlaybackId = NoId

(* the auto-poll effect: whether it leaves an interval running for these data *)
PollEffect(data) == data.muxPlaybackId = NoId \/ ~data.isStreamLive

(* the mounted page: the loader data it shows, its interval, and the seconds the
   interval has been waiting *)
LivePage(shop, s, data, last) ==
  [pc |-> "page", shop |-> shop, sid |-> s, data |-> data, interval |-> PollEffect(data),
   wait |-> 0, last |-> last, stages |-> <<>>]

PageStep(r, page) ==
  /\ req' = [req EXCEPT ![r] = page]
  /\ resp' = NoResp
  /\ UNCHANGED <<flow, streams, cache, events, now, muxNext, clipRuns, catalog>>

(* the merchant opens the page: loader, first render, effect *)
OpenLivePage(r, shop, s, redisOk) ==
  /\ ~Busy(r)
  /\ LiveLoaderOk(shop, s)
  /\ PageStep(r, LivePage(shop, s, LiveLoader(s, redisOk), "open"))

(* a second passes on the page while an interval is running *)
Second(r) ==
  /\ req[r].pc = "page"
  /\ req[r].interval
  /\ req[r].wait < PollSeconds
  /\ PageStep(r, [req[r] EXCEPT !.wait = @ + 1, !.last = "second"])

(* the interval fires: revalidator.revalidate() re-runs the loader, the page
   re-renders and the effect runs again; a loader that throws unmounts the page,
   whose cleanup clears the interval *)
PollFires(r, redisOk) ==
  LET q == req[r] IN
  /\ q.pc = "page"
  /\ q.interval
  /\ q.wait = PollSeconds
  /\ IF LiveLoaderOk(q.shop, q.sid)
     THEN PageStep(r, LivePage(q.shop, q.sid, LiveLoader(q.sid, redisOk), "poll"))
     ELSE PageStep(r, IdleReq)

(* the merchant leaves the page: the cleanup clears the interval *)
ClosePage(r) ==
  /\ req[r].pc = "page"
  /\ PageStep(r, IdleReq)

(* the merchant prepares, starts and ends a stream and the encoder reports to the
   webhook, while the live control page is open in another tab *)
NextLivePage ==
  \/ CreateDraft("r1", "shopA")
  \/ \E s \in StreamIds, withPb \in BOOLEAN : PrepareStream("r1", "shopA", s, withPb)
  \/ \E s \in StreamIds : StartStream("r1", "shopA", s)
  \/ \E s \in StreamIds : EndStream("r1", "shopA", s)
  \/ EncoderEvents("r1", {1}, {NoId, PlaybackOf(1)})
  \/ \E w \in {"cache", "event", "record"} : Land("r1", w)
  \/ Finish("r1")
  \/ \E s \in StreamIds, redisOk \in BOOLEAN : OpenLivePage("r2", "shopA", s, redisOk)
  \/ Second("r2")
  \/ \E redisOk \in BOOLEAN : PollFires("r2", redisOk)
  \/ ClosePage("r2")
SpecLivePage == Init /\ [][NextLivePage]_vars

Confirmed(data) == data.muxPlaybackId # NoId /\ data.isStreamLive

(* C26: the live control page keeps a 5-second poll interval exactly while the
   loader data lack a playback id or report isStreamLive false; a poll is issued
   only when that interval has waited 5 seconds; once the data show both, the
   interval is gone and the page neither polls nor sees new data while it stays
   mounted. *)
C26_PollWhileWaiting ==
  [][\A r \in DOMAIN req :
       LET q == req[r]
           n == req'[r]
       IN (q.pc = "page" =>
             /\ q.interval <=> ~Confirmed(q.data)
             /\ q.wait <= PollSeconds
             /\ (n # q /\ n.pc = "page" /\ n.last = "poll")
                  => (q.interval /\ q.wait = PollSeconds /\ ~Confirmed(q.data))
             /\ Confirmed(q.data) => (n = q \/ n.pc = "idle"))
          /\ ((q.pc # "page" /\ n.pc = "page") => (n.interval <=> ~Confirmed(n.data)))]_vars

(* a poll has just returned both values and cleared the interval *)
C26_Witness ==
  /\ req["r2"].pc = "page"
  /\ req["r2"].last = "poll"
  /\ Confirmed(req["r2"].data)
  /\ ~req["r2"].interval

----------------------------------------------------------------------------
(* The stream dashboard (app.streams.$id.tsx, StreamDashboard); in the
   specification of this section the clock counts seconds *)

(* pollInterval = 15000 *)
DashPollSeconds == 15
(* 5 * 60 * 1000 *)
RestartWindowSeconds == 300
(* the clock advances a third of a poll interval at a time *)
Granule == DashPollSeconds \div 3
MaxSeconds == 341

(* loader: the fields of the stream the poll effect depends on *)
DashLoader(s) ==
  [muxStreamId |-> streams[s].muxStreamId, status |-> streams[s].status,
   endedAt |-> streams[s].endedAt]

(* mutant: an ended stream is polled however long ago it ended *)
DashPollIntervalNoWindow(data, t) ==
  IF data.muxStreamId = NoId THEN 0
  ELSE IF data.status \in {"SCHEDULED", "DRAFT", "ENDED"} THEN DashPollSeconds
  ELSE 0

(* the poll effect run at time t: the interval it sets, 0 for none *)
DashPollInterval(data, t) ==
  IF data.muxStreamId = NoId THEN 0
  ELSE IF data.status \in {"SCHEDULED", "DRAFT"} THEN DashPollSeconds
  ELSE IF data.status = "ENDED"
  THEN IF data.endedAt # NoTime /\ data.endedAt < t - RestartWindowSeconds
       THEN 0 ELSE DashPollSeconds
  ELSE 0

(* the mounted dashboard after its effect has run at the present time *)
Dashboard(shop, s, data, last) ==
  [pc |-> "dash", shop |-> shop, sid |-> s, data |-> data,
   interval |-> DashPollInterval(data, now) # 0, wait |-> 0, last |-> last,
   stages |-> <<>>]

(* the merchant opens the dashboard: loader, first render, effect *)
OpenDashboard(r, shop, s) ==
  /\ ~Busy(r)
  /\ FindByShop(s, shop)
  /\ PageStep(r, Dashboard(shop, s, DashLoader(s), "open"))

(* the interval fires: revalidator.revalidate() re-runs the loader; the revalidator
   returned by useRevalidator is a new object after a revalidation, so the effect
   runs again whether or not the stream's fields have changed *)
DashPollFires(r) ==
  LET q == req[r] IN
  /\ q.pc = "dash"
  /\ q.interval
  /\ q.wait = DashPollSeconds
  /\ PageStep(r, Dashboard(q.shop, q.sid, DashLoader(q.sid), "poll"))

(* the merchant leaves the dashboard *)
CloseDashboard(r) ==
  /\ req[r].pc = "dash"
  /\ PageStep(r, IdleReq)

(* seconds pass, on the server and on the dashboard in slot r; a due interval
   fires, and a request in flight is answered, before the clock moves on *)
SecondsPass(r) ==
  LET q == req[r] IN
  /\ now < MaxSeconds
  /\ \A x \in DOMAIN req : req[x].pc # "run"
  /\ now' = now + Granule
  /\ IF q.pc = "dash" /\ q.interval
     THEN /\ q.wait < DashPollSeconds
          /\ req' = [req EXCEPT ![r] = [q EXCEPT !.wait = @ + Granule, !.last = "wait"]]
     ELSE UNCHANGED req
  /\ resp' = NoResp
  /\ UNCHANGED <<flow, streams, cache, events, muxNext, clipRuns, catalog>>

(* a draft, a prepared draft or a started stream *)
InitDashboard ==
  /\ flow \in Flows
  /\ streams \in {[s \in StreamIds |-> NewStream("shopA", "DRAFT")],
                  [s \in StreamIds |-> Update(NewStream("shopA", "DRAFT"),
                                              [muxStreamId |-> 1, muxPlaybackId |-> PlaybackOf(1)])],
                  [s \in StreamIds |-> Update(NewStream("shopA", "LIVE"),
                                              [muxStreamId |-> 1, muxPlaybackId |-> PlaybackOf(1),
                                               startedAt |-> 1])]}
  /\ cache = [s \in StreamIds |-> "none"]
  /\ events = <<>>
  /\ now = 1
  /\ muxNext = 1
  /\ clipRuns = [s \in StreamIds |-> 0]
  /\ req = [r \in {"r1", "r2"} |-> IdleReq]
  /\ resp = NoResp
  /\ products = <<>>
  /\ streamClips = <<>>
  /\ clipAssets = 0

(* the merchant ends the stream in one tab while the dashboard is open in another *)
NextDashboard ==
  \/ \E s \in StreamIds : EndStream("r1", "shopA", s)
  \/ \E w \in {"event", "record"} : Land("r1", w)
  \/ Finish("r1")
  \/ \E s \in StreamIds : OpenDashboard("r2", "shopA", s)
  \/ DashPollFires("r2")
  \/ CloseDashboard("r2")
  \/ SecondsPass("r2")
SpecDashboard == InitDashboard /\ [][NextDashboard]_vars

(* C27: the dashboard holds no poll interval while its stream has no muxStreamId
   or is LIVE, and for an ENDED stream no poll is issued later than 5 minutes plus
   one 15-second interval after endedAt. *)
C27_DashboardPollBounded ==
  [][\A r \in DOMAIN req :
       LET q == req[r]
           n == req'[r]
       IN q.pc = "dash" =>
            /\ (q.data.muxStreamId = NoId \/ q.data.status = "LIVE") => ~q.interval
            /\ (n # q /\ n.pc = "dash" /\ n.last = "poll")
                 => /\ q.data.muxStreamId # NoId
                    /\ q.data.status # "LIVE"
                    /\ (q.data.status = "ENDED" /\ q.data.endedAt # NoTime)
                         => now <= q.data.endedAt + RestartWindowSeconds + DashPollSeconds]_vars

(* the last poll for an ended stream, 5 minutes and one interval after endedAt: it
   leaves no interval behind *)
C27_Witness ==
  /\ req["r2"].pc = "dash"
  /\ req["r2"].last = "poll"
  /\ req["r2"].data.status = "ENDED"
  /\ req["r2"].data.endedAt # NoTime
  /\ now = req["r2"].data.endedAt + RestartWindowSeconds + DashPollSeconds
  /\ ~req["r2"].interval

----------------------------------------------------------------------------
(* Asset-ready events and the clip jobs they start *)

(* createAutoClipsForFeaturedProducts(stream.id).catch(...): a job the asset-ready
   handler has started and not awaited begins to run in slot j *)
BackgroundAutoClips(j, s) ==
  /\ Cardinality({x \in {"j1", "j2"} : req[x].pc = "clips" /\ req[x].sid = s}) < clipRuns[s]
  /\ StartAutoClips(j, s)

(* a recorded stream of shopA whose asset has not been reported yet, with one
   featured product *)
InitAssets ==
  /\ flow = "strict"
  /\ streams = [s \in StreamIds |->
                  Update(NewStream("shopA", "ENDED"),
                         [startedAt |-> 1000, endedAt |-> 200000, muxStreamId |-> 1,
                          muxPlaybackId |-> PlaybackOf(1)])]
  /\ cache = [s \in StreamIds |-> "ended"]
  /\ events = <<>>
  /\ now = 1
  /\ muxNext = 1
  /\ clipRuns = [s \in StreamIds |-> 0]
  /\ req = [r \in {"r1", "r2", "j1", "j2"} |-> IdleReq]
  /\ resp = NoResp
  /\ products = <<[Row("s1", "p1", 0) EXCEPT !.featuredAt = 31500]>>
  /\ streamClips = <<>>
  /\ clipAssets = 0

(* Mux delivers asset-ready events for the stream, possibly while an earlier
   delivery is still being handled; the clip jobs run in the background *)
NextAssets ==
  \/ \E r \in {"r1", "r2"} :
       \/ AssetEvents(r, {1}, {21, 22})
       \/ \E w \in {"record", "clipStart"} : Land(r, w)
       \/ Finish(r)
  \/ \E j \in {"j1", "j2"} :
       \/ \E s \in StreamIds : BackgroundAutoClips(j, s)
       \/ ClipFind(j)
       \/ \E muxOk \in BOOLEAN : ClipMux(j, muxOk)
       \/ ClipStore(j)
SpecAssets == InitAssets /\ [][NextAssets]_vars

(* C30: clip generation is started at most once per stream, and no stream holds two
   clips of the same product. *)
C30_OneAutoClipPerProduct ==
  /\ \A s \in DOMAIN clipRuns : clipRuns[s] <= 1
  /\ \A i, k \in DOMAIN streamClips :
       (streamClips[i].stream = streamClips[k].stream
          /\ streamClips[i].productId = streamClips[k].productId) => i = k

====
